---------------------------- MODULE Spec2Model ----------------------------
(***************************************************************************)
(* A model of aiomigrate: the plan reconciler (plan.py), the orchestrator  *)
(* (db.py) running against a transactional backend (driver.py,             *)
(* postgres.py) and the migration file parser (parser.py).                 *)
(*                                                                         *)
(* Three specifications share the module:                                  *)
(*   SpecPlan   plan_migrations / list_migrations as pure functions of     *)
(*              inputs drawn from bounded sets;                            *)
(*   Spec       do_migrate, statement by statement, with failures;         *)
(*   SpecParse  parse_migration, line by line.                             *)
(***************************************************************************)
EXTENDS Integers, Sequences, FiniteSets, TLC

(***************************************************************************)
(* Bounds of the model.                                                    *)
(***************************************************************************)
\* the largest limit drawn for MigrationOptions.limit
MaxLimit == 2

None == "None"

(***************************************************************************)
(* Migration names.  A name is a Python str; the planner only compares     *)
(* names (==, <, max, min, sorted), and str comparison is lexicographic    *)
(* by code point.  A name is modelled as the sequence of its digits, so    *)
(* that "10" sorts before "2".                                             *)
(***************************************************************************)
\* names of the migration files that may exist on disk: "1", "10", "2"
FileNames == { <<1>>, <<1, 0>>, <<2>> }

\* a name that only ever exists in the bookkeeping table: "15"
DbOnlyNames == { <<1, 5>> }

AllNames == FileNames \cup DbOnlyNames

\* Python's str.__lt__: lexicographic, a proper prefix is smaller
RECURSIVE StrLess(_, _)
StrLess(a, b) ==
    IF b = <<>> THEN FALSE
    ELSE IF a = <<>> THEN TRUE
    ELSE IF Head(a) # Head(b) THEN Head(a) < Head(b)
    ELSE StrLess(Tail(a), Tail(b))

\* max() over a non-empty set of names
StrMax(S) == CHOOSE x \in S : \A y \in S : ~StrLess(x, y)

\* min() over a non-empty set of names
StrMin(S) == CHOOSE x \in S : \A y \in S : ~StrLess(y, x)

(***************************************************************************)
(* entities.py                                                             *)
(***************************************************************************)
MigrationStatus == { "UNAPPLIED", "APPLIED" }

Direction == { "UP", "DOWN" }

\* the dataclass Migration, all seven fields
Migration(name, status, apply_time, up, down, dtu, dtd) ==
    [ name |-> name,
      status |-> status,
      apply_time |-> apply_time,
      up_statements |-> up,
      down_statements |-> down,
      disable_transactions_up |-> dtu,
      disable_transactions_down |-> dtd ]

MigrationOptions(direction, limit) == [ direction |-> direction, limit |-> limit ]

(***************************************************************************)
(* Python list helpers used by plan.py                                     *)
(***************************************************************************)
\* one step of a stable ascending sort by name: m goes after every element
\* whose name is not greater than its own
RECURSIVE InsertAsc(_, _)
InsertAsc(m, s) ==
    IF s = <<>> THEN <<m>>
    ELSE IF StrLess(m.name, Head(s).name) THEN <<m>> \o s
    ELSE <<Head(s)>> \o InsertAsc(m, Tail(s))

\* one step of a stable descending sort by name (sorted(..., reverse=True))
RECURSIVE InsertDesc(_, _)
InsertDesc(m, s) ==
    IF s = <<>> THEN <<m>>
    ELSE IF StrLess(Head(s).name, m.name) THEN <<m>> \o s
    ELSE <<Head(s)>> \o InsertDesc(m, Tail(s))

\* sorted(s, key=lambda m: m.name)
RECURSIVE SortedByName(_)
SortedByName(s) ==
    IF s = <<>> THEN <<>>
    ELSE InsertAsc(s[Len(s)], SortedByName(SubSeq(s, 1, Len(s) - 1)))

\* sorted(s, key=lambda m: m.name, reverse=True)
RECURSIVE SortedByNameReverse(_)
SortedByNameReverse(s) ==
    IF s = <<>> THEN <<>>
    ELSE InsertDesc(s[Len(s)], SortedByNameReverse(SubSeq(s, 1, Len(s) - 1)))

\* the elements of a frozenset in the order iteration yields them (some order)
RECURSIVE IterSet(_)
IterSet(S) ==
    IF S = {} THEN <<>>
    ELSE LET x == CHOOSE y \in S : TRUE IN <<x>> \o IterSet(S \ {x})

\* typing.Optional[int]: None is the empty sequence, an int n is <<n>>
NoLimit == << >>

SomeLimit(n) == << n >>

\* mutant of SliceTo: the cut is one element too long
SliceToOneMore(s, limit) ==
    IF limit = NoLimit THEN s
    ELSE SubSeq(s, 1, IF limit[1] + 1 < Len(s) THEN limit[1] + 1 ELSE Len(s))

\* s[:limit]; limit None keeps everything, a negative limit drops from the end
SliceTo(s, limit) ==
    IF limit = NoLimit THEN s
    ELSE IF limit[1] >= 0
    THEN SubSeq(s, 1, IF limit[1] < Len(s) THEN limit[1] ELSE Len(s))
    ELSE SubSeq(s, 1, IF Len(s) + limit[1] > 0 THEN Len(s) + limit[1] ELSE 0)

\* frozenset(m.name for m in s)
NameSet(s) == { s[i].name : i \in 1..Len(s) }

\* {m.name: m for m in known}[name]: a later entry replaces an earlier one
KnownMapping(known, name) ==
    known[CHOOSE i \in 1..Len(known) :
            /\ known[i].name = name
            /\ \A j \in (i + 1)..Len(known) : known[j].name # name]

\* [known_mapping[name] for name in names]
MapRecords(known, names) == [ i \in 1..Len(names) |-> KnownMapping(known, names[i]) ]

(***************************************************************************)
(* plan.py                                                                 *)
(***************************************************************************)
\* the outcome of a call that has not been made
NotCalled == [ tag |-> "none" ]

Returned(ret) == [ tag |-> "return", ret |-> ret ]

UnknownAppliedMigration(migrations) ==
    [ tag |-> "UnknownAppliedMigration", migrations |-> migrations ]

InvalidMigrationApplyOrder(last_applied, first_unapplied) ==
    [ tag |-> "InvalidMigrationApplyOrder",
      last_applied |-> last_applied,
      first_unapplied |-> first_unapplied ]

\* mutant of PlanSelect: reverse=True is missing from the Down sort
PlanSelectDownAscending(known, applied_set, unapplied_migrations, direction, limit) ==
    LET ret == IF direction = "UP"
               THEN SortedByName(MapRecords(known, IterSet(unapplied_migrations)))
               ELSE SortedByName(MapRecords(known, IterSet(applied_set)))
    IN  Returned(IF limit # NoLimit THEN SliceTo(ret, limit) ELSE ret)

\* the tail of plan_migrations: build the sorted list, then truncate
PlanSelect(known, applied_set, unapplied_migrations, direction, limit) ==
    LET ret == IF direction = "UP"
               THEN SortedByName(MapRecords(known, IterSet(unapplied_migrations)))
               ELSE SortedByNameReverse(MapRecords(known, IterSet(applied_set)))
    IN  Returned(IF limit # NoLimit THEN SliceTo(ret, limit) ELSE ret)

\* mutant of PlanValidated: the apply-order check is missing
PlanValidatedNoOrderCheck(known, applied, direction, limit) ==
    LET known_set == NameSet(known)
        applied_set == NameSet(applied)
    IN  IF applied_set \ known_set # {}
        THEN UnknownAppliedMigration(applied_set \ known_set)
        ELSE PlanSelect(known, applied_set, known_set \ applied_set, direction, limit)

\* mutant of PlanValidated: the error carries every applied name
PlanValidatedReportsAllApplied(known, applied, direction, limit) ==
    LET known_set == NameSet(known)
        applied_set == NameSet(applied)
        unapplied_migrations == known_set \ applied_set
    IN  IF applied_set \ known_set # {}
        THEN UnknownAppliedMigration(applied_set)
        ELSE IF /\ unapplied_migrations # {}
                /\ StrLess(StrMin(unapplied_migrations), StrMax(applied_set))
        THEN InvalidMigrationApplyOrder(StrMax(applied_set), StrMin(unapplied_migrations))
        ELSE PlanSelect(known, applied_set, unapplied_migrations, direction, limit)

\* the validation of plan_migrations on a non-empty applied list
PlanValidated(known, applied, direction, limit) ==
    LET known_set == NameSet(known)
        applied_set == NameSet(applied)
        unknown_applied_migrations == applied_set \ known_set
        unapplied_migrations == known_set \ applied_set
        last_applied == StrMax(applied_set)
    IN  IF unknown_applied_migrations # {}
        THEN UnknownAppliedMigration(unknown_applied_migrations)
        ELSE IF /\ unapplied_migrations # {}
                /\ StrLess(StrMin(unapplied_migrations), last_applied)
        THEN InvalidMigrationApplyOrder(last_applied, StrMin(unapplied_migrations))
        ELSE PlanSelect(known, applied_set, unapplied_migrations, direction, limit)

\* mutant of PlanNothingApplied: the list of files is not sorted
PlanNothingAppliedUnsorted(known, direction, limit) ==
    IF direction = "UP"
    THEN Returned(SliceTo(known, limit))
    ELSE Returned(<< >>)

\* the branch of plan_migrations taken when nothing is applied
PlanNothingApplied(known, direction, limit) ==
    IF direction = "UP"
    THEN Returned(SliceTo(SortedByName(known), limit))
    ELSE Returned(<<>>)

plan_migrations(known, applied, direction, limit) ==
    IF applied = <<>>
    THEN PlanNothingApplied(known, direction, limit)
    ELSE PlanValidated(known, applied, direction, limit)

\* mutant of list_migrations: the applied records are not sorted
list_migrations_unsorted(known, applied) ==
    LET unapplied_sorted == plan_migrations(known, applied, "UP", NoLimit)
    IN  IF unapplied_sorted.tag # "return"
        THEN unapplied_sorted
        ELSE Returned(applied \o unapplied_sorted.ret)

list_migrations(known, applied) ==
    LET unapplied_sorted == plan_migrations(known, applied, "UP", NoLimit)
    IN  IF unapplied_sorted.tag # "return"
        THEN unapplied_sorted
        ELSE Returned(SortedByName(applied) \o unapplied_sorted.ret)


(***************************************************************************)
(* Inputs.  A parsed file is an UNAPPLIED record carrying statements       *)
(* (parser.py:97-100); a record read from the bookkeeping table is an      *)
(* APPLIED record carrying only name and apply_time (db.py:41-48).  A      *)
(* statement is an opaque SQL text, identified by migration, direction     *)
(* and position.  Timestamps are never compared or branched on by the      *)
(* engine: every stored apply_time is the one token "utc".                 *)
(***************************************************************************)
\* the most statements one direction of one migration has
MaxStmts == 2

Statements(name, direction, n) == [ i \in 1..n |-> <<name, direction, i>> ]

\* what parse_migration returns for the file called name
ParsedFile(name, dtu, dtd) ==
    Migration(name, "UNAPPLIED", None,
              Statements(name, "UP", MaxStmts),
              Statements(name, "DOWN", MaxStmts - 1),
              dtu, dtd)

\* one element of the list get_migration_records builds
AppliedRecord(name) == Migration(name, "APPLIED", "utc", <<>>, <<>>, FALSE, FALSE)

\* every ordering of the elements of S, as sequences
Orderings(S) ==
    { s \in [1..Cardinality(S) -> S] : \A i, j \in DOMAIN s : s[i] = s[j] => i = j }

\* get_migration_records: the rows of the table, ORDER BY name
get_migration_records(rows) == SortedByName([ i \in 1..Cardinality(rows) |->
                                               AppliedRecord(IterSet(rows)[i]) ])

\* lists of parsed files in any order (resource_listdir promises none), no
\* transaction opt-outs: file names are unique within a directory
KnownListsAnyOrder ==
    UNION { { [ i \in DOMAIN o |-> ParsedFile(o[i], FALSE, FALSE) ] : o \in Orderings(S) }
            : S \in SUBSET FileNames }

\* lists of applied records in any order, names unique (primary key)
AppliedListsAnyOrder ==
    UNION { { [ i \in DOMAIN o |-> AppliedRecord(o[i]) ] : o \in Orderings(S) }
            : S \in SUBSET AllNames }

Limits == { NoLimit } \cup { SomeLimit(n) : n \in -1..MaxLimit }

VARIABLES
    known_migrations,    \* the list of parsed files handed to the engine
    applied_migrations,  \* the list of records read from the bookkeeping table
    options,             \* MigrationOptions of the call
    pc,                  \* where the modelled call stands
    plan_out,            \* what plan_migrations returned or raised
    list_out,            \* what list_migrations returned or raised
    reverse_out,         \* plan_migrations(known, <previous Up plan>, DOWN, None)
    table_exists,        \* database: the bookkeeping table has been created
    table,               \* database: committed rows of the bookkeeping table (names)
    db_log,              \* database: committed statement effects, in commit order
    tx_open,             \* connection: a transaction is open
    tx_table,            \* connection: the rows as the open transaction sees them
    tx_log,              \* connection: the effects as the open transaction sees them
    to_apply,            \* do_migrate: the plan
    migration_i,         \* do_migrate: position of the for loop in to_apply
    statement_i,         \* do_migrate: position of the inner for loop
    outcome,             \* do_migrate: what the call returned or raised
    issued,              \* history: every conn.execute of this call, in order
    log_base,            \* history: Len(db_log) when this call started
    previous,            \* history: the call before this one, if any
    parse_state,         \* parse_migration: the _ParseState
    parse_pc,            \* parse_migration: reading, returned or raised
    parse_out,           \* parse_migration: the record returned or the error raised
    content_read,        \* history: the lines read so far, line ends stripped
    dsn,                 \* get_driver: the DSN of the call
    other_dsn,           \* get_driver: the DSN of a second call on the same registry
    entry_points,        \* the entry points registered under 'aiomigrate.drivers'
    driver_out,          \* what get_driver(dsn) returned or raised
    other_driver_out,    \* what get_driver(other_dsn) returned or raised
    operation,           \* operations.py: migrate or migration_status
    op_pc,               \* operations.py: where the operation stands
    directory,           \* the files of cfg.files_source, in listing order
    pool,                \* db.connection: the pool (none, open, closed)
    conn,                \* db.connection: the connection (none, held, released)
    op_out,              \* what the operation returned or raised
    runs                 \* two do_migrate calls on one database: the locals of each

shared_vars == << known_migrations, applied_migrations, options, pc >>

plan_only_vars == << plan_out, list_out, reverse_out >>

db_vars == << table_exists, table, db_log >>

tx_vars == << tx_open, tx_table, tx_log >>

run_only_vars == << db_vars, tx_vars, to_apply, migration_i, statement_i, outcome,
                    issued, log_base, previous >>

parse_vars == << parse_state, parse_pc, parse_out, content_read >>

driver_vars == << dsn, other_dsn, entry_points, driver_out, other_driver_out >>

op_vars == << operation, op_pc, directory, pool, conn, op_out >>

race_vars == << runs >>

vars == << shared_vars, plan_only_vars, run_only_vars, parse_vars, driver_vars, op_vars,
           race_vars >>

\* the orchestrator and the database before any call
RunIdle ==
    /\ table_exists = FALSE
    /\ table = {}
    /\ db_log = << >>
    /\ tx_open = FALSE
    /\ tx_table = {}
    /\ tx_log = << >>
    /\ to_apply = << >>
    /\ migration_i = 0
    /\ statement_i = 0
    /\ outcome = NotCalled
    /\ issued = << >>
    /\ log_base = 0
    /\ previous = NotCalled

\* the parser before any call
ParseIdle ==
    /\ parse_state = NotCalled
    /\ parse_pc = "idle"
    /\ parse_out = NotCalled
    /\ content_read = << >>

\* get_driver has not been called
DriverIdle ==
    /\ dsn = << >>
    /\ other_dsn = << >>
    /\ entry_points = << >>
    /\ driver_out = NotCalled
    /\ other_driver_out = NotCalled

\* no operation of operations.py has been called
OpIdle ==
    /\ operation = "none"
    /\ op_pc = "idle"
    /\ directory = << >>
    /\ pool = "none"
    /\ conn = "none"
    /\ op_out = NotCalled

\* no two calls of do_migrate share the database
RaceIdle == runs = << >>

\* the reconciler's results before any call
PlanIdle ==
    /\ plan_out = NotCalled
    /\ list_out = NotCalled
    /\ reverse_out = NotCalled

(***************************************************************************)
(* SpecPlan: the reconciler as a pure function.                            *)
(***************************************************************************)
InitPlan ==
    /\ known_migrations \in KnownListsAnyOrder
    /\ applied_migrations \in AppliedListsAnyOrder
    /\ options \in { MigrationOptions(d, l) : d \in Direction, l \in Limits }
    /\ pc = "input"
    /\ PlanIdle
    /\ RunIdle
    /\ ParseIdle
    /\ DriverIdle
    /\ OpIdle
    /\ RaceIdle

\* plan.plan_migrations(known, applied, direction, limit)
CallPlanMigrations ==
    /\ pc = "input"
    /\ plan_out' = plan_migrations(known_migrations, applied_migrations,
                                   options.direction, options.limit)
    /\ pc' = "planned"
    /\ UNCHANGED << known_migrations, applied_migrations, options, list_out, reverse_out,
                    run_only_vars, parse_vars, driver_vars, op_vars, race_vars >>

\* plan.list_migrations(known, applied)
CallListMigrations ==
    /\ pc = "input"
    /\ list_out' = list_migrations(known_migrations, applied_migrations)
    /\ pc' = "listed"
    /\ UNCHANGED << known_migrations, applied_migrations, options, plan_out, reverse_out,
                    run_only_vars, parse_vars, driver_vars, op_vars, race_vars >>

\* the previous plan taken as the applied list of a plan in direction Down
CallPlanOnOwnOutput ==
    /\ pc = "planned"
    /\ plan_out.tag = "return"
    /\ reverse_out' = plan_migrations(known_migrations, plan_out.ret, "DOWN", NoLimit)
    /\ pc' = "reversed"
    /\ UNCHANGED << known_migrations, applied_migrations, options, plan_out, list_out,
                    run_only_vars, parse_vars, driver_vars, op_vars, race_vars >>

NextPlan == CallPlanMigrations \/ CallListMigrations \/ CallPlanOnOwnOutput

SpecPlan == InitPlan /\ [][NextPlan]_vars

(***************************************************************************)
(* Properties of the reconciler, checked under SpecPlan.                   *)
(***************************************************************************)
KnownNames == NameSet(known_migrations)

AppliedNames == NameSet(applied_migrations)

UnappliedNames == KnownNames \ AppliedNames

\* x is the greatest (least) name of S in str order
IsGreatest(x, S) == x \in S /\ \A y \in S : y = x \/ StrLess(y, x)

IsLeast(x, S) == x \in S /\ \A y \in S : y = x \/ StrLess(x, y)

\* some applied name sorts after some unapplied name
OutOfOrder == \E a \in AppliedNames, u \in UnappliedNames :
                  IsGreatest(a, AppliedNames) /\ IsLeast(u, UnappliedNames) /\ StrLess(u, a)

\* the bookkeeping table and the files agree: nothing unknown, nothing skipped
PassesValidation == AppliedNames \subseteq KnownNames /\ ~OutOfOrder

StrictlyAscending(s) == \A i \in 1..(Len(s) - 1) : StrLess(s[i].name, s[i + 1].name)

StrictlyDescending(s) == \A i \in 1..(Len(s) - 1) : StrLess(s[i + 1].name, s[i].name)

Elements(s) == { s[i] : i \in 1..Len(s) }

Reversed(s) == [ i \in 1..Len(s) |-> s[Len(s) + 1 - i] ]

\* C4 as stated: whenever max(applied) > min(known - applied), the plan fails
\* with InvalidMigrationApplyOrder(max(applied), min(unapplied)), whatever
\* else the applied set holds.
C4_OrderErrorWheneverOutOfOrder ==
    (pc = "planned" /\ OutOfOrder) =>
        /\ plan_out.tag = "InvalidMigrationApplyOrder"
        /\ IsGreatest(plan_out.last_applied, AppliedNames)
        /\ IsLeast(plan_out.first_unapplied, UnappliedNames)

\* C4 amended: when every applied name is known and max(applied) >
\* min(known - applied), the plan fails with InvalidMigrationApplyOrder
\* carrying exactly those two names, for either direction and any limit;
\* and an out-of-order history never yields a plan.
C4_OrderErrorWhenAllAppliedKnown ==
    (pc = "planned" /\ OutOfOrder) =>
        /\ plan_out.tag # "return"
        /\ AppliedNames \subseteq KnownNames =>
              /\ plan_out.tag = "InvalidMigrationApplyOrder"
              /\ IsGreatest(plan_out.last_applied, AppliedNames)
              /\ IsLeast(plan_out.first_unapplied, UnappliedNames)

C4_Witness ==
    /\ pc = "planned"
    /\ OutOfOrder
    /\ AppliedNames \subseteq KnownNames
    /\ plan_out.tag = "InvalidMigrationApplyOrder"
    /\ options.direction = "DOWN"
    /\ options.limit = SomeLimit(1)

\* C5: an applied list holding a name that is not known makes the plan fail
\* with UnknownAppliedMigration carrying exactly applied - known, for either
\* direction and any limit.
C5_UnknownAppliedExact ==
    (pc = "planned" /\ AppliedNames \ KnownNames # {}) =>
        /\ plan_out.tag = "UnknownAppliedMigration"
        /\ plan_out.migrations = AppliedNames \ KnownNames

C5_Witness ==
    /\ pc = "planned"
    /\ plan_out.tag = "UnknownAppliedMigration"
    /\ plan_out.migrations # AppliedNames
    /\ AppliedNames \cap KnownNames # {}
    /\ UnappliedNames # {}

\* C6: with validation passed and no limit, Up returns exactly the known
\* records of the unapplied names in ascending name order and Down exactly
\* the known records of the applied names in descending order (nothing
\* applied: Up is all of known, Down is empty); a record of a plan is always
\* the parsed record, never the one read from the table.
C6_UnlimitedPlan ==
    (pc = "planned" /\ PassesValidation /\ options.limit = NoLimit) =>
        /\ plan_out.tag = "return"
        /\ Elements(plan_out.ret) \subseteq Elements(known_migrations)
        /\ options.direction = "UP" =>
              /\ NameSet(plan_out.ret) = UnappliedNames
              /\ StrictlyAscending(plan_out.ret)
        /\ options.direction = "DOWN" =>
              /\ NameSet(plan_out.ret) = AppliedNames
              /\ StrictlyDescending(plan_out.ret)

C6_Witness ==
    /\ pc = "planned"
    /\ PassesValidation
    /\ options = MigrationOptions("DOWN", NoLimit)
    /\ Len(plan_out.ret) >= 2
    /\ UnappliedNames # {}

\* C7: for inputs that pass validation, either direction and a limit L >= 0,
\* the plan is the first min(L, n) records of the unlimited plan of length n;
\* without a limit the plan has one record per unapplied (Up) or applied
\* (Down) name.
C7_LimitIsPrefix ==
    (pc = "planned" /\ PassesValidation) =>
        LET full == plan_migrations(known_migrations, applied_migrations,
                                    options.direction, NoLimit).ret
            n == Cardinality(IF options.direction = "UP"
                             THEN UnappliedNames ELSE AppliedNames)
        IN  /\ plan_out.tag = "return"
            /\ Len(full) = n
            /\ options.limit = NoLimit => Len(plan_out.ret) = n
            /\ (options.limit # NoLimit /\ options.limit[1] >= 0) =>
                  /\ Len(plan_out.ret) = (IF options.limit[1] < n THEN options.limit[1] ELSE n)
                  /\ \A i \in 1..Len(plan_out.ret) : plan_out.ret[i] = full[i]

C7_Witness ==
    /\ pc = "planned"
    /\ PassesValidation
    /\ applied_migrations # << >>
    /\ options.limit = SomeLimit(1)
    /\ Len(plan_out.ret) = 1
    /\ Cardinality(UnappliedNames) = 2
    /\ options.direction = "UP"

\* C8: planning Down without a limit, with the unlimited Up plan of an empty
\* table taken as the applied list, returns that plan in reverse order.
C8_DownReversesUp ==
    ( /\ pc = "reversed"
      /\ applied_migrations = << >>
      /\ options = MigrationOptions("UP", NoLimit) ) =>
        /\ reverse_out.tag = "return"
        /\ reverse_out.ret = Reversed(plan_out.ret)

C8_Witness ==
    /\ pc = "reversed"
    /\ applied_migrations = << >>
    /\ options = MigrationOptions("UP", NoLimit)
    /\ Len(reverse_out.ret) = 3
    /\ known_migrations[1].name = << 2 >>

\* C9: list_migrations returns the applied records in ascending name order
\* followed by the unlimited Up plan; when it returns, the result is in
\* ascending name order, holds every known name exactly once, APPLIED for
\* the applied names and UNAPPLIED for the others; when it fails, it fails
\* with the error plan_migrations raises on the same input.
C9_ListMigrations ==
    pc = "listed" =>
        /\ PassesValidation =>
              LET na == Len(applied_migrations) IN
              /\ list_out.tag = "return"
              /\ Len(list_out.ret) = Cardinality(KnownNames)
              /\ NameSet(list_out.ret) = KnownNames
              /\ StrictlyAscending(list_out.ret)
              /\ \A i \in 1..Len(list_out.ret) :
                    /\ i <= na => /\ list_out.ret[i] \in Elements(applied_migrations)
                                  /\ list_out.ret[i].status = "APPLIED"
                    /\ i > na => /\ list_out.ret[i] \in Elements(known_migrations)
                                 /\ list_out.ret[i].name \in UnappliedNames
                                 /\ list_out.ret[i].status = "UNAPPLIED"
        /\ ~PassesValidation =>
              /\ list_out.tag \in { "UnknownAppliedMigration", "InvalidMigrationApplyOrder" }
              /\ \A d \in Direction, l \in Limits :
                    list_out = plan_migrations(known_migrations, applied_migrations, d, l)

C9_Witness ==
    /\ pc = "listed"
    /\ list_out.tag = "return"
    /\ Len(applied_migrations) = 2
    /\ applied_migrations[1].name = << 1, 0 >>
    /\ Len(list_out.ret) = 3

(***************************************************************************)
(* Spec: db.do_migrate against a database.                                 *)
(*                                                                         *)
(* The database holds the bookkeeping rows and the effects of the          *)
(* statements executed so far.  A statement is opaque to the engine, so    *)
(* its effect is recorded as the statement itself, appended to a log.      *)
(* Outside a transaction every conn.execute commits on its own; inside     *)
(* conn.transaction() the connection works on its own view, which the      *)
(* exit of the block commits, or discards when the block raised            *)
(* (postgres.py:36-40).  Any conn.execute may fail.                        *)
(***************************************************************************)
\* the files whose directives may carry notransaction; the last file takes none
OptOutNames == { <<1>>, <<1, 0>> }

\* lists of parsed files, each with its own transaction opt-outs
KnownLists ==
    UNION { { SortedByName([ i \in 1..Cardinality(S) |->
                               ParsedFile(IterSet(S)[i],
                                          f[IterSet(S)[i]][1], f[IterSet(S)[i]][2]) ])
              : f \in { g \in [S -> BOOLEAN \X BOOLEAN] :
                           \A n \in S \ OptOutNames : g[n] = << FALSE, FALSE >> } }
            : S \in SUBSET FileNames }

\* one conn.execute as the history records it
Event(kind, name, direction, i, ok) ==
    [ kind |-> kind, name |-> name, direction |-> direction, i |-> i, ok |-> ok ]

ExecuteError(event) == [ tag |-> "ExecuteError", event |-> event ]

\* mutant of SelectStatements: the list of the other direction is taken
SelectStatementsOtherDirection(migration, direction) ==
    IF direction = "UP" THEN migration.down_statements ELSE migration.up_statements

\* do_migrate: the statement list for the direction (db.py:81-86)
SelectStatements(migration, direction) ==
    IF direction = "UP" THEN migration.up_statements ELSE migration.down_statements

\* mutant of DisableTransactions: the flags are not looked at
DisableTransactionsNever(migration, direction) == FALSE

\* mutant of DisableTransactions: the flag of the other direction is read
DisableTransactionsOtherFlag(migration, direction) ==
    IF direction = "UP"
    THEN migration.disable_transactions_down
    ELSE migration.disable_transactions_up

\* do_migrate: the opt-out flag for the direction (db.py:81-86)
DisableTransactions(migration, direction) ==
    IF direction = "UP"
    THEN migration.disable_transactions_up
    ELSE migration.disable_transactions_down

\* mutant of mark_migration: the direction test is inverted
mark_migration_inverted(rows, direction, name) ==
    IF direction = "UP" THEN rows \ { name } ELSE rows \cup { name }

\* mark_migration: INSERT the name on Up, DELETE it on Down
mark_migration(rows, direction, name) ==
    IF direction = "UP" THEN rows \cup { name } ELSE rows \ { name }

\* mutant of MarkRefused: the name column is no primary key
MarkRefusedNever(rows, direction, name) == FALSE

\* the INSERT of a name the primary key already holds is refused
MarkRefused(rows, direction, name) == direction = "UP" /\ name \in rows

\* mutant of AfterError: the error is swallowed and the loop goes on
AfterErrorContinue(i) == [ pc |-> "loop", migration_i |-> i + 1 ]

\* an exception raised inside the for loop leaves do_migrate: nothing catches it
AfterError(i) == [ pc |-> "raised", migration_i |-> i ]

\* the migration the for loop is at, its statements and its event kind
Current == to_apply[migration_i]

CurrentStatements == SelectStatements(Current, options.direction)

MarkKind == IF options.direction = "UP" THEN "insert" ELSE "delete"

InitRun ==
    /\ known_migrations \in KnownLists
    /\ applied_migrations = << >>
    /\ options = MigrationOptions("UP", NoLimit)
    /\ pc = "idle"
    /\ PlanIdle
    /\ table_exists \in BOOLEAN
    /\ table \in (IF table_exists THEN SUBSET AllNames ELSE { {} })
    /\ db_log = << >>
    /\ tx_open = FALSE
    /\ tx_table = {}
    /\ tx_log = << >>
    /\ to_apply = << >>
    /\ migration_i = 0
    /\ statement_i = 0
    /\ outcome = NotCalled
    /\ issued = << >>
    /\ log_base = 0
    /\ previous = NotCalled
    /\ ParseIdle
    /\ DriverIdle
    /\ OpIdle
    /\ RaceIdle

\* the limits a call of do_migrate is given
RunLimits == { NoLimit } \cup { SomeLimit(n) : n \in 0..MaxLimit }

\* the entry of do_migrate: the locals of the new call
EnterDoMigrate ==
    /\ \E d \in Direction, l \in RunLimits : options' = MigrationOptions(d, l)
    /\ pc' = "ensure"
    /\ applied_migrations' = << >>
    /\ to_apply' = << >>
    /\ migration_i' = 0
    /\ statement_i' = 0
    /\ outcome' = NotCalled
    /\ issued' = << >>
    /\ log_base' = Len(db_log)
    /\ UNCHANGED << known_migrations, plan_only_vars, parse_vars, driver_vars, op_vars, race_vars, db_vars, tx_vars >>

\* do_migrate(conn, cfg, options, known_migrations) is called
CallDoMigrate ==
    /\ pc = "idle"
    /\ EnterDoMigrate
    /\ UNCHANGED previous

\* do_migrate is called once more, on the database the first call left and
\* with the same known_migrations
CallDoMigrateAgain ==
    /\ pc \in { "returned", "raised" }
    /\ previous = NotCalled
    /\ previous' = [ tag |-> "called", outcome |-> outcome, options |-> options,
                     to_apply |-> to_apply, migration_i |-> migration_i ]
    /\ EnterDoMigrate

\* mutant of EnsureMigrationTable: the table is created anew, its rows are lost
EnsureMigrationTableRecreates ==
    /\ pc = "ensure"
    /\ table_exists' = TRUE
    /\ table' = {}
    /\ issued' = Append(issued, Event("create", << >>, options.direction, 0, TRUE))
    /\ pc' = "read"
    /\ UNCHANGED << known_migrations, applied_migrations, options, plan_only_vars, parse_vars, driver_vars, op_vars, race_vars,
                    db_log, tx_vars, to_apply, migration_i, statement_i,
                    outcome, log_base, previous >>

\* ensure_migration_table: CREATE TABLE IF NOT EXISTS
EnsureMigrationTable ==
    /\ pc = "ensure"
    /\ table_exists' = TRUE
    /\ issued' = Append(issued, Event("create", << >>, options.direction, 0, TRUE))
    /\ pc' = "read"
    /\ UNCHANGED << known_migrations, applied_migrations, options, plan_only_vars, parse_vars, driver_vars, op_vars, race_vars,
                    table, db_log, tx_vars, to_apply, migration_i, statement_i,
                    outcome, log_base, previous >>

\* applied_migrations = await get_migration_records(conn, cfg.table)
GetMigrationRecords ==
    /\ pc = "read"
    /\ applied_migrations' = get_migration_records(table)
    /\ pc' = "plan"
    /\ UNCHANGED << known_migrations, options, plan_only_vars, parse_vars, driver_vars, op_vars, race_vars, db_vars, tx_vars,
                    to_apply, migration_i, statement_i, outcome, issued, log_base,
                    previous >>

\* to_apply = plan.plan_migrations(...); its errors leave do_migrate as they are
PlanMigrations ==
    /\ pc = "plan"
    /\ LET planned == plan_migrations(known_migrations, applied_migrations,
                                      options.direction, options.limit)
       IN  IF planned.tag = "return"
           THEN /\ to_apply' = planned.ret
                /\ migration_i' = 1
                /\ pc' = "loop"
                /\ outcome' = outcome
           ELSE /\ outcome' = planned
                /\ pc' = "raised"
                /\ UNCHANGED << to_apply, migration_i >>
    /\ UNCHANGED << known_migrations, applied_migrations, options, plan_only_vars, parse_vars, driver_vars, op_vars, race_vars,
                    db_vars, tx_vars, statement_i, issued, log_base, previous >>

\* for migration in to_apply: pick statements and flag, open the transaction
BeginMigration ==
    /\ pc = "loop"
    /\ migration_i <= Len(to_apply)
    /\ statement_i' = 1
    /\ IF ~DisableTransactions(Current, options.direction)
       THEN /\ tx_open' = TRUE
            /\ tx_table' = table
            /\ tx_log' = db_log
       ELSE UNCHANGED tx_vars
    /\ pc' = "statements"
    /\ UNCHANGED << known_migrations, applied_migrations, options, plan_only_vars, parse_vars, driver_vars, op_vars, race_vars,
                    db_vars, to_apply, migration_i, outcome, issued, log_base,
                    previous >>

\* await conn.execute(statement) succeeds
ExecuteStatement ==
    /\ pc = "statements"
    /\ statement_i <= Len(CurrentStatements)
    /\ IF tx_open
       THEN /\ tx_log' = Append(tx_log, CurrentStatements[statement_i])
            /\ UNCHANGED db_log
       ELSE /\ db_log' = Append(db_log, CurrentStatements[statement_i])
            /\ UNCHANGED tx_log
    /\ issued' = Append(issued, Event("statement", Current.name, options.direction,
                                      statement_i, TRUE))
    /\ statement_i' = statement_i + 1
    /\ UNCHANGED << shared_vars, plan_only_vars, parse_vars, driver_vars, op_vars, race_vars, table_exists, table, tx_open, tx_table,
                    to_apply, migration_i, outcome, log_base, previous >>

\* await conn.execute(statement) raises: the statement has no effect, an open
\* transaction is rolled back, and the exception leaves do_migrate
ExecuteStatementFails ==
    /\ pc = "statements"
    /\ statement_i <= Len(CurrentStatements)
    /\ LET event == Event("statement", Current.name, options.direction,
                          statement_i, FALSE)
       IN  /\ issued' = Append(issued, event)
           /\ outcome' = ExecuteError(event)
    /\ tx_open' = FALSE
    /\ tx_table' = {}
    /\ tx_log' = << >>
    /\ pc' = AfterError(migration_i).pc
    /\ migration_i' = AfterError(migration_i).migration_i
    /\ UNCHANGED << known_migrations, applied_migrations, options, plan_only_vars, parse_vars, driver_vars, op_vars, race_vars,
                    db_vars, to_apply, statement_i, log_base, previous >>

\* await mark_migration(...) succeeds
MarkMigration ==
    /\ pc = "statements"
    /\ statement_i = Len(CurrentStatements) + 1
    /\ IF tx_open
       THEN /\ ~MarkRefused(tx_table, options.direction, Current.name)
            /\ tx_table' = mark_migration(tx_table, options.direction, Current.name)
            /\ pc' = "commit"
            /\ UNCHANGED << table, migration_i >>
       ELSE /\ ~MarkRefused(table, options.direction, Current.name)
            /\ table' = mark_migration(table, options.direction, Current.name)
            /\ pc' = "loop"
            /\ migration_i' = migration_i + 1
            /\ UNCHANGED tx_table
    /\ issued' = Append(issued, Event(MarkKind, Current.name, options.direction, 0, TRUE))
    /\ UNCHANGED << known_migrations, applied_migrations, options, plan_only_vars, parse_vars, driver_vars, op_vars, race_vars,
                    table_exists, db_log, tx_open, tx_log, to_apply, statement_i,
                    outcome, log_base, previous >>

\* await mark_migration(...) raises
MarkMigrationFails ==
    /\ pc = "statements"
    /\ statement_i = Len(CurrentStatements) + 1
    /\ LET event == Event(MarkKind, Current.name, options.direction, 0, FALSE)
       IN  /\ issued' = Append(issued, event)
           /\ outcome' = ExecuteError(event)
    /\ tx_open' = FALSE
    /\ tx_table' = {}
    /\ tx_log' = << >>
    /\ pc' = AfterError(migration_i).pc
    /\ migration_i' = AfterError(migration_i).migration_i
    /\ UNCHANGED << known_migrations, applied_migrations, options, plan_only_vars, parse_vars, driver_vars, op_vars, race_vars,
                    db_vars, to_apply, statement_i, log_base, previous >>

\* the block of conn.transaction() is left without an exception: COMMIT
CommitTransaction ==
    /\ pc = "commit"
    /\ table' = tx_table
    /\ db_log' = tx_log
    /\ tx_open' = FALSE
    /\ tx_table' = {}
    /\ tx_log' = << >>
    /\ migration_i' = migration_i + 1
    /\ pc' = "loop"
    /\ UNCHANGED << known_migrations, applied_migrations, options, plan_only_vars, parse_vars, driver_vars, op_vars, race_vars,
                    table_exists, to_apply, statement_i, outcome, issued, log_base,
                    previous >>

\* mutant of ReturnCount: the number of known migrations is returned
ReturnCountOfKnown ==
    /\ pc = "loop"
    /\ migration_i > Len(to_apply)
    /\ outcome' = Returned(Len(known_migrations))
    /\ pc' = "returned"
    /\ UNCHANGED << known_migrations, applied_migrations, options, plan_only_vars, parse_vars, driver_vars, op_vars, race_vars,
                    db_vars, tx_vars, to_apply, migration_i, statement_i, issued,
                    log_base, previous >>

\* return len(to_apply)
ReturnCount ==
    /\ pc = "loop"
    /\ migration_i > Len(to_apply)
    /\ outcome' = Returned(Len(to_apply))
    /\ pc' = "returned"
    /\ UNCHANGED << known_migrations, applied_migrations, options, plan_only_vars, parse_vars, driver_vars, op_vars, race_vars,
                    db_vars, tx_vars, to_apply, migration_i, statement_i, issued,
                    log_base, previous >>

Next ==
    \/ CallDoMigrate
    \/ CallDoMigrateAgain
    \/ EnsureMigrationTable
    \/ GetMigrationRecords
    \/ PlanMigrations
    \/ BeginMigration
    \/ ExecuteStatement
    \/ ExecuteStatementFails
    \/ MarkMigration
    \/ MarkMigrationFails
    \/ CommitTransaction
    \/ ReturnCount

Spec == InitRun /\ [][Next]_vars

(***************************************************************************)
(* Properties of do_migrate, checked under Spec.                           *)
(***************************************************************************)
\* the statement effects committed since this call started
CommittedSince == { db_log[i] : i \in (log_base + 1)..Len(db_log) }

\* the statements of a planned migration in the direction of this call
PlannedStatements(m) ==
    { (IF options.direction = "UP" THEN m.up_statements ELSE m.down_statements)[i] :
        i \in 1..Len(IF options.direction = "UP" THEN m.up_statements
                     ELSE m.down_statements) }

\* transactions are enabled for a planned migration in the given direction
TransactionsEnabled(m, direction) ==
    IF direction = "UP" THEN ~m.disable_transactions_up ELSE ~m.disable_transactions_down

\* the committed bookkeeping rows differ, for this name, from those the call read
BookkeepingChanged(name) == (name \in table) # (name \in NameSet(applied_migrations))

\* the call has a plan
Planned ==
    \/ pc \in { "loop", "statements", "commit", "returned" }
    \/ pc = "raised" /\ outcome.tag = "ExecuteError"

FailedEvents == { i \in 1..Len(issued) : ~issued[i].ok }

\* C1: for a planned migration with transactions enabled for the direction,
\* in every committed state of the database the effects of its statements
\* are there if and only if its bookkeeping change is there: none of them
\* without the change, all of them with it.
C1_StatementsAndBookkeepingAtomic ==
    \A j \in 1..Len(to_apply) :
        TransactionsEnabled(to_apply[j], options.direction) =>
            /\ PlannedStatements(to_apply[j]) \cap CommittedSince # {}
                  => BookkeepingChanged(to_apply[j].name)
            /\ BookkeepingChanged(to_apply[j].name)
                  => PlannedStatements(to_apply[j]) \subseteq CommittedSince

\* a bookkeeping write failed in the second transaction of a run
C1_Witness ==
    /\ pc = "raised"
    /\ outcome.tag = "ExecuteError"
    /\ outcome.event.kind = "insert"
    /\ migration_i = 2
    /\ TransactionsEnabled(to_apply[1], "UP")
    /\ TransactionsEnabled(to_apply[2], "UP")
    /\ BookkeepingChanged(to_apply[1].name)
    /\ ~BookkeepingChanged(to_apply[2].name)

\* C2: once a statement or a bookkeeping write of the k-th planned migration
\* has failed, the call has ended with that failure, the migrations before
\* the k-th are committed with their bookkeeping changes, and nothing of a
\* migration after the k-th has been executed.
C2_FailureAbortsRun ==
    FailedEvents # {} =>
        /\ pc = "raised"
        /\ outcome.tag = "ExecuteError"
        /\ FailedEvents = { Len(issued) }
        /\ outcome.event = issued[Len(issued)]
        /\ migration_i \in 1..Len(to_apply)
        /\ outcome.event.name = to_apply[migration_i].name
        /\ \A j \in 1..(migration_i - 1) :
              /\ BookkeepingChanged(to_apply[j].name)
              /\ PlannedStatements(to_apply[j]) \subseteq CommittedSince
        /\ \A j \in (migration_i + 1)..Len(to_apply) :
              /\ ~BookkeepingChanged(to_apply[j].name)
              /\ PlannedStatements(to_apply[j]) \cap CommittedSince = {}
              /\ \A i \in 1..Len(issued) : issued[i].name # to_apply[j].name

\* the second of three planned migrations failed
C2_Witness ==
    /\ pc = "raised"
    /\ outcome.tag = "ExecuteError"
    /\ Len(to_apply) = 3
    /\ migration_i = 2
    /\ outcome.event.kind = "statement"
    /\ outcome.event.i = 2

\* the call before this one was an Up run whose planned migrations all had
\* transactions enabled and which failed at its k-th migration, and this
\* call is an Up run too
RerunAfterFailedUp ==
    /\ previous.tag = "called"
    /\ previous.outcome.tag = "ExecuteError"
    /\ previous.options.direction = "UP"
    /\ options.direction = "UP"
    /\ \A j \in 1..Len(previous.to_apply) : TransactionsEnabled(previous.to_apply[j], "UP")

\* the migrations k, k+1, ... of the plan of the call before
RestOfPreviousPlan ==
    SubSeq(previous.to_apply, previous.migration_i, Len(previous.to_apply))

\* C3 as stated, for a re-run with the very options of the failed run: the
\* re-run of a failed transactional Up run plans exactly the migrations
\* k, k+1, ... of the original plan.
C3_RerunPlansExactlyTheRest ==
    (RerunAfterFailedUp /\ Planned /\ options = previous.options)
        => to_apply = RestOfPreviousPlan

\* C3 amended: the re-run's planning does not fail and its plan starts at
\* migration k and follows the original plan in order, so no committed
\* migration is planned again and none is skipped; it is exactly the
\* migrations k, k+1, ... of the original plan when neither call has a
\* limit, and under a limit it is the first `limit` pending migrations,
\* which may end before or after the original plan does.
C3_RerunResumesAtFailedMigration ==
    RerunAfterFailedUp =>
        /\ pc = "raised" => outcome.tag = "ExecuteError"
        /\ Planned =>
              /\ \A i \in 1..Len(to_apply) :
                    /\ i <= Len(RestOfPreviousPlan) => to_apply[i] = RestOfPreviousPlan[i]
                    /\ \A j \in 1..(previous.migration_i - 1) :
                          to_apply[i].name # previous.to_apply[j].name
              /\ (options.limit = NoLimit /\ previous.options.limit = NoLimit)
                    => to_apply = RestOfPreviousPlan
              /\ options.limit = NoLimit => Len(to_apply) >= Len(RestOfPreviousPlan)

\* an unlimited Up run failed at its second migration and was run again
C3_Witness ==
    /\ RerunAfterFailedUp
    /\ Planned
    /\ previous.migration_i = 2
    /\ previous.options.limit = NoLimit
    /\ options.limit = NoLimit
    /\ Len(to_apply) = 2
    /\ pc = "returned"

(***************************************************************************)
(* parser.py.  A str is the sequence of its characters, so that the        *)
(* prefix tests, the split on "--", the strips and the whitespace split    *)
(* of the parser are computed on the text itself.                          *)
(***************************************************************************)
\* the most lines a migration file has
MaxLines == 4

\* SQL_CMD_PREFIX = '-- +migrate '
SQL_CMD_PREFIX == << "-", "-", " ", "+", "m", "i", "g", "r", "a", "t", "e", " " >>

\* OPTION_NO_TRANSACTION = 'notransaction'
OPTION_NO_TRANSACTION == << "n", "o", "t", "r", "a", "n", "s", "a", "c", "t", "i", "o", "n" >>

\* '-- ' and '-- +', the two prefixes the loop tests
CommentPrefix == << "-", "-", " " >>

PlusPrefix == << "-", "-", " ", "+" >>

CommandUp == << "U", "p" >>

CommandDown == << "D", "o", "w", "n" >>

CommandStatementBegin == << "S", "t", "a", "t", "e", "m", "e", "n", "t", "B", "e", "g", "i", "n" >>

CommandStatementEnd == << "S", "t", "a", "t", "e", "m", "e", "n", "t", "E", "n", "d" >>

\* the characters str.strip(), str.rstrip() and str.split() treat as blank
Whitespace == { " ", "\t", "\n", "\r", "\f" }

\* s.startswith(prefix)
StartsWith(s, prefix) ==
    Len(s) >= Len(prefix) /\ SubSeq(s, 1, Len(prefix)) = prefix

\* s.endswith(suffix)
EndsWith(s, suffix) ==
    Len(s) >= Len(suffix) /\ SubSeq(s, Len(s) - Len(suffix) + 1, Len(s)) = suffix

\* s.rstrip(chars)
RECURSIVE RStrip(_, _)
RStrip(s, chars) ==
    IF s # << >> /\ s[Len(s)] \in chars
    THEN RStrip(SubSeq(s, 1, Len(s) - 1), chars)
    ELSE s

\* s.lstrip(chars)
RECURSIVE LStrip(_, _)
LStrip(s, chars) ==
    IF s # << >> /\ Head(s) \in chars THEN LStrip(Tail(s), chars) ELSE s

\* s.strip()
Strip(s) == LStrip(RStrip(s, Whitespace), Whitespace)

\* s.find(sub) + 1: the position of the first occurrence of sub, 0 if none
Find(s, sub) ==
    LET at == { i \in 1..(Len(s) - Len(sub) + 1) : SubSeq(s, i, i + Len(sub) - 1) = sub }
    IN  IF at = {} THEN 0 ELSE CHOOSE i \in at : \A j \in at : i <= j

\* s.split(sep, maxsplit=1)[0]
BeforeFirst(s, sep) ==
    IF Find(s, sep) = 0 THEN s ELSE SubSeq(s, 1, Find(s, sep) - 1)

\* s.replace(old, '', 1)
RemoveFirst(s, old) ==
    IF Find(s, old) = 0 THEN s
    ELSE SubSeq(s, 1, Find(s, old) - 1) \o SubSeq(s, Find(s, old) + Len(old), Len(s))

\* the first word of a text that starts with a non-blank character
RECURSIVE FirstWord(_)
FirstWord(s) ==
    IF s = << >> \/ Head(s) \in Whitespace THEN << >>
    ELSE << Head(s) >> \o FirstWord(Tail(s))

\* s.split(): the words between runs of whitespace
RECURSIVE SplitWords(_)
SplitWords(s) ==
    LET t == LStrip(s, Whitespace)
    IN  IF t = << >> THEN << >>
        ELSE << FirstWord(t) >> \o SplitWords(SubSeq(t, Len(FirstWord(t)) + 1, Len(t)))

MigrationParseError(message) == [ tag |-> "MigrationParseError", message |-> message ]

\* a step of the parser that did not raise
Parsed(state) == [ tag |-> "ok", state |-> state ]

\* _parse_command(line): _MigrateCommand(command, options), or the error raised
_parse_command(line) ==
    LET parts == SplitWords(RemoveFirst(line, SQL_CMD_PREFIX))
    IN  IF parts = << >>
        THEN MigrationParseError("incomplete migration command")
        ELSE [ tag |-> "ok", command |-> Head(parts), options |-> Tail(parts) ]

\* _ends_with_semicolon without the cut at the line comment
_ends_with_semicolon_whole_line(line) ==
    EndsWith(RStrip(line, Whitespace), << ";" >>)

\* _ends_with_semicolon(line)
_ends_with_semicolon(line) ==
    EndsWith(RStrip(BeforeFirst(line, << "-", "-" >>), Whitespace), << ";" >>)

\* the message of _raise_err_no_terminator
_raise_err_no_terminator == MigrationParseError("no terminator")

\* _ParseState(...) as parse_migration builds it
InitialParseState(name) ==
    [ buf |-> << >>,
      statement_ended |-> FALSE,
      ignore_semicolons |-> FALSE,
      current_direction |-> None,
      parsed_migration |-> Migration(name, "UNAPPLIED", None, << >>, << >>, FALSE, FALSE) ]

\* mutant of SwitchDirection: the flag of the direction follows the option, so
\* a directive without the option resets it
SwitchDirectionResetsFlag(state, direction, cmd_options) ==
    IF Strip(state.buf) # << >>
    THEN _raise_err_no_terminator
    ELSE Parsed([ state EXCEPT
            !.buf = << >>,
            !.current_direction = direction,
            !.parsed_migration.disable_transactions_up =
                IF direction = "UP"
                THEN \E i \in 1..Len(cmd_options) : cmd_options[i] = OPTION_NO_TRANSACTION
                ELSE @,
            !.parsed_migration.disable_transactions_down =
                IF direction = "DOWN"
                THEN \E i \in 1..Len(cmd_options) : cmd_options[i] = OPTION_NO_TRANSACTION
                ELSE @ ])

\* mutant of SwitchDirection: the buffer is cleared without being looked at
SwitchDirectionUnchecked(state, direction, cmd_options) ==
    Parsed([ state EXCEPT
        !.buf = << >>,
        !.current_direction = direction,
        !.parsed_migration.disable_transactions_up =
            IF direction = "UP" /\ \E i \in 1..Len(cmd_options) : cmd_options[i] = OPTION_NO_TRANSACTION
            THEN TRUE ELSE @,
        !.parsed_migration.disable_transactions_down =
            IF direction = "DOWN" /\ \E i \in 1..Len(cmd_options) : cmd_options[i] = OPTION_NO_TRANSACTION
            THEN TRUE ELSE @ ])

\* _interpret_command, branches cmd.command == 'Up' and 'Down'
SwitchDirection(state, direction, cmd_options) ==
    IF Strip(state.buf) # << >>
    THEN _raise_err_no_terminator
    ELSE Parsed([ state EXCEPT
            !.buf = << >>,
            !.current_direction = direction,
            !.parsed_migration.disable_transactions_up =
                IF direction = "UP" /\ \E i \in 1..Len(cmd_options) : cmd_options[i] = OPTION_NO_TRANSACTION
                THEN TRUE ELSE @,
            !.parsed_migration.disable_transactions_down =
                IF direction = "DOWN" /\ \E i \in 1..Len(cmd_options) : cmd_options[i] = OPTION_NO_TRANSACTION
                THEN TRUE ELSE @ ])

\* mutant of _interpret_command: StatementEnd leaves ignore_semicolons as it is
_interpret_command_end_keeps_mode(state, cmd) ==
    IF cmd.command = CommandUp THEN SwitchDirection(state, "UP", cmd.options)
    ELSE IF cmd.command = CommandDown THEN SwitchDirection(state, "DOWN", cmd.options)
    ELSE IF cmd.command = CommandStatementBegin
    THEN Parsed(IF state.current_direction # None
                THEN [ state EXCEPT !.ignore_semicolons = TRUE ]
                ELSE state)
    ELSE IF cmd.command = CommandStatementEnd
    THEN Parsed(IF state.current_direction # None
                THEN [ state EXCEPT !.statement_ended = state.ignore_semicolons ]
                ELSE state)
    ELSE MigrationParseError("Invalid command")

\* _interpret_command(parse_state, cmd)
_interpret_command(state, cmd) ==
    IF cmd.command = CommandUp THEN SwitchDirection(state, "UP", cmd.options)
    ELSE IF cmd.command = CommandDown THEN SwitchDirection(state, "DOWN", cmd.options)
    ELSE IF cmd.command = CommandStatementBegin
    THEN Parsed(IF state.current_direction # None
                THEN [ state EXCEPT !.ignore_semicolons = TRUE ]
                ELSE state)
    ELSE IF cmd.command = CommandStatementEnd
    THEN Parsed(IF state.current_direction # None
                THEN [ state EXCEPT !.statement_ended = state.ignore_semicolons,
                                    !.ignore_semicolons = FALSE ]
                ELSE state)
    ELSE MigrationParseError("Invalid command")

\* the loop body up to the directive: lines 108-111
HandleCommand(state, line) ==
    LET cmd == _parse_command(line)
    IN  IF StartsWith(line, SQL_CMD_PREFIX)
        THEN IF cmd.tag = "ok" THEN _interpret_command(state, cmd) ELSE cmd
        ELSE Parsed(state)

\* the loop body, lines 116-117: the line joins the buffer
AppendLine(state, line) ==
    IF ~StartsWith(line, PlusPrefix)
    THEN [ state EXCEPT !.buf = @ \o line \o << "\n" >> ]
    ELSE state

\* mutant of WrapUp: every statement goes to the up statements
WrapUpAlwaysUp(state) ==
    [ state EXCEPT !.statement_ended = FALSE,
                   !.parsed_migration.up_statements = Append(@, state.buf),
                   !.buf = << >> ]

\* the loop body, lines 130-139: the buffer becomes a statement
WrapUp(state) ==
    IF state.current_direction = "UP"
    THEN [ state EXCEPT !.statement_ended = FALSE,
                        !.parsed_migration.up_statements = Append(@, state.buf),
                        !.buf = << >> ]
    ELSE [ state EXCEPT !.statement_ended = FALSE,
                        !.parsed_migration.down_statements = Append(@, state.buf),
                        !.buf = << >> ]

\* mutant of AccumulateLine: a semicolon ends the statement inside a block too
AccumulateLineAlwaysSplits(state, line) ==
    IF state.current_direction = None THEN state
    ELSE LET appended == AppendLine(state, line)
         IN  IF _ends_with_semicolon(line) \/ appended.statement_ended
             THEN WrapUp(appended)
             ELSE appended

\* the loop body, lines 113-139, after the directive has been interpreted
AccumulateLine(state, line) ==
    IF state.current_direction = None THEN state
    ELSE LET appended == AppendLine(state, line)
         IN  IF \/ ~appended.ignore_semicolons /\ _ends_with_semicolon(line)
                \/ appended.statement_ended
             THEN WrapUp(appended)
             ELSE appended

\* mutant of ParseLine: a comment line is not skipped, it joins the buffer
ParseLineCommentsBuffered(state, raw) ==
    LET line == RStrip(raw, { "\r", "\n" })
        handled == HandleCommand(state, line)
    IN  IF handled.tag # "ok"
        THEN handled
        ELSE Parsed(AccumulateLine(handled.state, line))

\* one iteration of `for line in content`, on the line as read from the file
ParseLine(state, raw) ==
    LET line == RStrip(raw, { "\r", "\n" })
        handled == HandleCommand(state, line)
    IN  IF StartsWith(line, CommentPrefix) /\ ~StartsWith(line, PlusPrefix)
        THEN Parsed(state)
        ELSE IF handled.tag # "ok"
        THEN handled
        ELSE Parsed(AccumulateLine(handled.state, line))

\* mutant of EndOfInput: the buffer left at the end is not looked at
EndOfInputBufferUnchecked(state) ==
    IF state.ignore_semicolons
    THEN MigrationParseError("StatementBegin with no matching StatementEnd")
    ELSE IF state.current_direction = None
    THEN MigrationParseError("no Up/Down annotations found")
    ELSE Returned(state.parsed_migration)

\* the checks after the loop, lines 141-160
EndOfInput(state) ==
    IF state.ignore_semicolons
    THEN MigrationParseError("StatementBegin with no matching StatementEnd")
    ELSE IF state.current_direction = None
    THEN MigrationParseError("no Up/Down annotations found")
    ELSE IF Strip(state.buf) # << >> /\ ~StartsWith(state.buf, PlusPrefix)
    THEN _raise_err_no_terminator
    ELSE Returned(state.parsed_migration)

(***************************************************************************)
(* The lines a migration file is made of.                                  *)
(***************************************************************************)
\* "-- +migrate Up"
LineUp == << "-", "-", " ", "+", "m", "i", "g", "r", "a", "t", "e", " ", "U", "p" >>

\* "-- +migrate Down"
LineDown == << "-", "-", " ", "+", "m", "i", "g", "r", "a", "t", "e", " ", "D", "o", "w", "n" >>

\* "-- +migrate Up notransaction"
LineUpNoTransaction == << "-", "-", " ", "+", "m", "i", "g", "r", "a", "t", "e", " ", "U", "p", " ", "n", "o", "t", "r", "a", "n", "s", "a", "c", "t", "i", "o", "n" >>

\* "-- +migrate Down notransaction"
LineDownNoTransaction == << "-", "-", " ", "+", "m", "i", "g", "r", "a", "t", "e", " ", "D", "o", "w", "n", " ", "n", "o", "t", "r", "a", "n", "s", "a", "c", "t", "i", "o", "n" >>

\* "-- +migrate StatementBegin"
LineStatementBegin == << "-", "-", " ", "+", "m", "i", "g", "r", "a", "t", "e", " ", "S", "t", "a", "t", "e", "m", "e", "n", "t", "B", "e", "g", "i", "n" >>

\* "-- +migrate StatementEnd"
LineStatementEnd == << "-", "-", " ", "+", "m", "i", "g", "r", "a", "t", "e", " ", "S", "t", "a", "t", "e", "m", "e", "n", "t", "E", "n", "d" >>

\* "-- nothing to downgrade!"
LineComment == << "-", "-", " ", "n", "o", "t", "h", "i", "n", "g", " ", "t", "o", " ", "d", "o", "w", "n", "g", "r", "a", "d", "e", "!" >>

\* "CREATE TABLE t(x int);"
LineCreate == << "C", "R", "E", "A", "T", "E", " ", "T", "A", "B", "L", "E", " ", "t", "(", "x", " ", "i", "n", "t", ")", ";" >>

\* "DROP TABLE t;"
LineDrop == << "D", "R", "O", "P", " ", "T", "A", "B", "L", "E", " ", "t", ";" >>

\* "SELECT 1"
LineNoSemicolon == << "S", "E", "L", "E", "C", "T", " ", "1" >>

\* ""
LineBlank == << >>

\* "x; -- y"
LineSemicolonThenComment == << "x", ";", " ", "-", "-", " ", "y" >>

\* "x -- y;"
LineSemicolonInComment == << "x", " ", "-", "-", " ", "y", ";" >>

\* "-- +migrate Redo"
LineUnknownCommand == << "-", "-", " ", "+", "m", "i", "g", "r", "a", "t", "e", " ", "R", "e", "d", "o" >>

FileLines ==
    { LineUp, LineDown, LineUpNoTransaction, LineDownNoTransaction,
      LineStatementBegin, LineStatementEnd,
      LineComment, LineCreate, LineDrop, LineNoSemicolon, LineBlank,
      LineSemicolonThenComment, LineSemicolonInComment, LineUnknownCommand }

\* the migration the file is parsed as
MigrationFileName == << 1 >>

\* how a line of the file ends
LineEnds == { << "\n" >>, << "\r", "\n" >> }

(***************************************************************************)
(* SpecParse: parse_migration(name, content), one line at a time.          *)
(***************************************************************************)
InitParse ==
    /\ known_migrations = << >>
    /\ applied_migrations = << >>
    /\ options = MigrationOptions("UP", NoLimit)
    /\ pc = "idle"
    /\ PlanIdle
    /\ RunIdle
    /\ parse_state = InitialParseState(MigrationFileName)
    /\ parse_pc = "reading"
    /\ parse_out = NotCalled
    /\ content_read = << >>
    /\ DriverIdle
    /\ OpIdle
    /\ RaceIdle

\* the body of `for line in content` on the next line of the file
ReadLine ==
    /\ parse_pc = "reading"
    /\ Len(content_read) < MaxLines
    /\ \E text \in FileLines, ending \in LineEnds :
          LET result == ParseLine(parse_state, text \o ending)
          IN  /\ content_read' = Append(content_read, text)
              /\ IF result.tag = "ok"
                 THEN /\ parse_state' = result.state
                      /\ UNCHANGED << parse_pc, parse_out >>
                 ELSE /\ parse_out' = result
                      /\ parse_pc' = "raised"
                      /\ UNCHANGED parse_state
    /\ UNCHANGED << shared_vars, plan_only_vars, run_only_vars, driver_vars, op_vars, race_vars >>

\* the file is exhausted: the final checks, then return parsed_migration
FinishParse ==
    /\ parse_pc = "reading"
    /\ parse_out' = EndOfInput(parse_state)
    /\ parse_pc' = IF EndOfInput(parse_state).tag = "return" THEN "returned" ELSE "raised"
    /\ UNCHANGED << parse_state, content_read, shared_vars, plan_only_vars, run_only_vars,
                    driver_vars, op_vars, race_vars >>

NextParse == ReadLine \/ FinishParse

SpecParse == InitParse /\ [][NextParse]_vars

(***************************************************************************)
(* Properties of the parser, stated on the lines read so far.              *)
(***************************************************************************)
\* the position of the first "--" of the line, past its end if there is none
LineCommentAt(line) ==
    LET at == { j \in 1..(Len(line) - 1) : line[j] = "-" /\ line[j + 1] = "-" }
    IN  IF at = {} THEN Len(line) + 1 ELSE CHOOSE j \in at : \A k \in at : j <= k

\* the text before the line comment ends in ';', blanks after it aside
SemicolonBeforeLineComment(line) ==
    \E i \in 1..(LineCommentAt(line) - 1) :
        /\ line[i] = ";"
        /\ \A j \in (i + 1)..(LineCommentAt(line) - 1) : line[j] \in { " ", "\t" }

IsDirectionLine(line) ==
    line \in { LineUp, LineDown, LineUpNoTransaction, LineDownNoTransaction }

\* a direction directive has been read among the first i lines
ActiveAt(lines, i) == \E k \in 1..i : IsDirectionLine(lines[k])

\* line i is read inside a StatementBegin block
IgnoreAt(lines, i) ==
    \E j \in 1..(i - 1) :
        /\ lines[j] = LineStatementBegin
        /\ ActiveAt(lines, j)
        /\ \A k \in (j + 1)..(i - 1) : lines[k] # LineStatementEnd

\* line j closes a statement or switches the direction
IsBoundary(lines, j) ==
    \/ IsDirectionLine(lines[j])
    \/ /\ ActiveAt(lines, j)
       /\ \/ ~IgnoreAt(lines, j) /\ SemicolonBeforeLineComment(lines[j])
          \/ IgnoreAt(lines, j) /\ lines[j] = LineStatementEnd

\* the last boundary before line n, 0 if there is none
LastBoundary(lines, n) ==
    LET at == { j \in 1..(n - 1) : IsBoundary(lines, j) }
    IN  IF at = {} THEN 0 ELSE CHOOSE j \in at : \A k \in at : k <= j

\* neither a comment nor a directive
IsContentLine(line) ==
    ~(Len(line) >= 3 /\ SubSeq(line, 1, 3) = << "-", "-", " " >>)

\* the content lines from..to, each followed by a newline
RECURSIVE ContentBetween(_, _, _)
ContentBetween(lines, from, to) ==
    IF from > to THEN << >>
    ELSE (IF IsContentLine(lines[from]) THEN lines[from] \o << "\n" >> ELSE << >>)
         \o ContentBetween(lines, from + 1, to)

StatementsOf(state, direction) ==
    IF direction = "UP" THEN state.parsed_migration.up_statements
    ELSE state.parsed_migration.down_statements

OtherDirection(direction) == IF direction = "UP" THEN "DOWN" ELSE "UP"

\* the file of the scenario: Up, CREATE TABLE t(x int);, Down, DROP TABLE t;
ScenarioFile == << LineUp, LineCreate, LineDown, LineDrop >>

\* a line ending in ';' is read while a direction is active and semicolons count
SemicolonLineRead ==
    /\ parse_pc = "reading"
    /\ Len(content_read') = Len(content_read) + 1
    /\ parse_state.current_direction # None
    /\ ~parse_state.ignore_semicolons
    /\ SemicolonBeforeLineComment(content_read'[Len(content_read')])

\* C10: while a direction is active and ignore-semicolons mode is off, a line
\* that ends in ';' once its trailing '--' comment is stripped completes a
\* statement: the content lines since the previous statement boundary, each
\* followed by a newline ("\n", whether the line ended in LF or CRLF), are
\* appended as one element to the statements of the active direction, the other
\* direction's statements stay as they are, and the buffer is cleared.  The file Up / CREATE TABLE t(x int); / Down /
\* DROP TABLE t; parses to exactly one up and one down statement.
C10_SemicolonCompletesStatement ==
    [][ /\ SemicolonLineRead =>
            LET n == Len(content_read')
                direction == parse_state.current_direction
            IN  /\ parse_pc' = "reading"
                /\ parse_state'.current_direction = direction
                /\ parse_state'.buf = << >>
                /\ StatementsOf(parse_state', direction) =
                       Append(StatementsOf(parse_state, direction),
                              ContentBetween(content_read',
                                             LastBoundary(content_read', n) + 1, n))
                /\ StatementsOf(parse_state', OtherDirection(direction)) =
                       StatementsOf(parse_state, OtherDirection(direction))
        /\ (content_read' = ScenarioFile /\ parse_pc' # "reading") =>
                /\ parse_pc' = "returned"
                /\ parse_out'.tag = "return"
                /\ parse_out'.ret.up_statements = << LineCreate \o << "\n" >> >>
                /\ parse_out'.ret.down_statements = << LineDrop \o << "\n" >> >>
      ]_vars

\* the scenario file has been parsed to the end: both of its ';' lines have
\* completed a statement
C10_Witness ==
    /\ content_read = ScenarioFile
    /\ parse_pc = "returned"
    /\ parse_out.ret.up_statements = << LineCreate \o << "\n" >> >>
    /\ parse_out.ret.down_statements = << LineDrop \o << "\n" >> >>

\* the StatementBegin that opened the block line n is read in, 0 if none
BlockBegin(lines, n) ==
    LET at == { j \in 1..(n - 1) :
                  /\ lines[j] = LineStatementBegin
                  /\ ActiveAt(lines, j)
                  /\ \A k \in (j + 1)..(n - 1) : lines[k] # LineStatementEnd }
    IN  IF at = {} THEN 0 ELSE CHOOSE j \in at : \A k \in at : j <= k

\* nothing but blanks
IsBlank(line) == \A i \in 1..Len(line) : line[i] \in { " ", "\t" }

\* a line is read inside a StatementBegin block
BlockLineRead ==
    /\ parse_pc = "reading"
    /\ Len(content_read') = Len(content_read) + 1
    /\ parse_state.ignore_semicolons

Occurs(sub, s) ==
    \E i \in 1..(Len(s) - Len(sub) + 1) : SubSeq(s, i, i + Len(sub) - 1) = sub

\* the content lines read since the last boundary
PendingContent(lines) ==
    ContentBetween(lines, LastBoundary(lines, Len(lines) + 1) + 1, Len(lines))

\* what the end of the input has to be answered with, from the lines read
ExpectedEnd(lines) ==
    IF IgnoreAt(lines, Len(lines) + 1) THEN "StatementBegin with no matching StatementEnd"
    ELSE IF ~ActiveAt(lines, Len(lines)) THEN "no Up/Down annotations found"
    ELSE IF ~IsBlank(SelectSeq(PendingContent(lines), LAMBDA c : c # "\n")) THEN "no terminator"
    ELSE "return"

\* the end of the input is reached
InputEnds ==
    /\ parse_pc = "reading"
    /\ parse_pc' # "reading"
    /\ content_read' = content_read

\* the answer at the end of the input is the one the lines read call for
EndValidated ==
    InputEnds =>
        /\ (ExpectedEnd(content_read) = "return") <=> (parse_pc' = "returned")
        /\ parse_pc' = "returned" =>
              /\ parse_out' = Returned(parse_state.parsed_migration)
              /\ parse_state.current_direction # None
              /\ ~parse_state.ignore_semicolons
              /\ IsBlank(SelectSeq(parse_state.buf, LAMBDA c : c # "\n"))
        /\ parse_pc' # "returned" =>
              /\ parse_pc' = "raised"
              /\ parse_out' = MigrationParseError(ExpectedEnd(content_read))

\* line i of the file is part of a statement of the record
KeptInRecord(record, lines, i) ==
    \E statements \in { record.up_statements, record.down_statements } :
        \E k \in 1..Len(statements) : Occurs(lines[i] \o << "\n" >>, statements[k])

\* of the lines from `first` on, every non-blank content line is in the record
NoLineDroppedFrom(first) ==
    parse_pc = "returned" =>
        \A i \in first..Len(content_read) :
            (IsContentLine(content_read[i]) /\ ~IsBlank(content_read[i]))
                => KeptInRecord(parse_out.ret, content_read, i)

\* the first Up or Down directive of the file, past its end if there is none
FirstDirection(lines) ==
    LET at == { j \in 1..Len(lines) : IsDirectionLine(lines[j]) }
    IN  IF at = {} THEN Len(lines) + 1 ELSE CHOOSE j \in at : \A k \in at : j <= k

\* C12 as stated: end-of-input validation as below, and no non-blank content
\* line of a successfully parsed file is dropped, wherever in the file it is.
C12_NoContentLineDropped ==
    [][ EndValidated /\ NoLineDroppedFrom(1)' ]_vars

\* C12: at the end of the input parse_migration returns the record exactly when
\* a direction has been seen, ignore-semicolons mode is off and the content
\* read since the last boundary is blank; otherwise it raises the parse error
\* of the first failing check (unterminated block, no Up/Down annotations, no
\* terminator).  In a successfully parsed file every non-blank content line
\* read after the first Up or Down directive is part of a statement; content
\* lines ahead of the first directive are ignored without an error.
C12_EndOfInputValidation ==
    [][ EndValidated /\ NoLineDroppedFrom(FirstDirection(content_read))' ]_vars

\* the end of the input was validated and a file accepted whose one statement
\* is two content lines long
C12_Witness ==
    /\ content_read = << LineUp, LineNoSemicolon, LineCreate >>
    /\ parse_pc = "returned"
    /\ parse_out.ret.up_statements =
           << LineNoSemicolon \o << "\n" >> \o LineCreate \o << "\n" >> >>

\* the elements of a sequence of texts joined
RECURSIVE Flatten(_)
Flatten(texts) ==
    IF texts = << >> THEN << >> ELSE Head(texts) \o Flatten(Tail(texts))

\* the direction named by the last Up or Down directive among lines 1..i
DirectionAt(lines, i) ==
    LET at == { j \in 1..i : IsDirectionLine(lines[j]) }
        last == CHOOSE j \in at : \A k \in at : k <= j
    IN  IF at = {} THEN None
        ELSE IF lines[last] \in { LineDown, LineDownNoTransaction } THEN "DOWN" ELSE "UP"

\* line i is followed (or is itself) a line that closes a statement, with no
\* Up or Down directive in between
ClosedByStatement(lines, i) ==
    \E c \in i..Len(lines) :
        /\ IsBoundary(lines, c)
        /\ \A j \in i..c : ~IsDirectionLine(lines[j])
        /\ \A j \in i..(c - 1) : ~IsBoundary(lines, j)

\* the content lines read while `direction` was active, each with a newline;
\* with kept_only, those only that a later line closes into a statement
RECURSIVE ContentWhile(_, _, _, _)
ContentWhile(lines, direction, kept_only, i) ==
    IF i > Len(lines) THEN << >>
    ELSE (IF /\ IsContentLine(lines[i])
             /\ DirectionAt(lines, i) = direction
             /\ kept_only => ClosedByStatement(lines, i)
          THEN lines[i] \o << "\n" >> ELSE << >>)
         \o ContentWhile(lines, direction, kept_only, i + 1)

\* the statements of the record, joined, are the content lines of each direction
RoundTrip(kept_only) ==
    parse_pc = "returned" =>
        /\ Flatten(parse_out.ret.up_statements) =
               ContentWhile(content_read, "UP", kept_only, 1)
        /\ Flatten(parse_out.ret.down_statements) =
               ContentWhile(content_read, "DOWN", kept_only, 1)

\* C13 as stated: for every input that parses successfully the joined up
\* statements are every content line read while Up was active, once each and
\* in order, and likewise for Down.
C13_RoundTripEveryLine ==
    RoundTrip(FALSE)

\* C13: for every input that parses successfully the joined up statements are
\* the content lines read while Up was active that a later ';' line or
\* StatementEnd closes into a statement, once each and in order, and likewise
\* for Down; the content lines left out, pending at an Up or Down directive or
\* at the end of the input, are all blank.
C13_RoundTripButPendingBlanks ==
    /\ RoundTrip(TRUE)
    /\ parse_pc = "returned" =>
          \A i \in 1..Len(content_read) :
              ( /\ IsContentLine(content_read[i])
                /\ DirectionAt(content_read, i) # None
                /\ ~ClosedByStatement(content_read, i) ) => IsBlank(content_read[i])

\* a file with a statement in each direction and a blank line ahead of the Down
\* directive has been parsed
C13_Witness ==
    /\ content_read = << LineUp, LineCreate, LineBlank, LineDown >>
    /\ parse_pc = "returned"
    /\ parse_out.ret.up_statements = << LineCreate \o << "\n" >> >>
    /\ parse_out.ret.down_statements = << >>

\* a StatementEnd directive is read while a direction is active
StatementEndRead ==
    /\ parse_pc = "reading"
    /\ Len(content_read') = Len(content_read) + 1
    /\ content_read'[Len(content_read')] = LineStatementEnd
    /\ parse_state.current_direction # None

\* the buffer becomes one more statement of the active direction
BufferBecomesStatement ==
    /\ parse_pc' = "reading"
    /\ parse_state'.buf = << >>
    /\ StatementsOf(parse_state', parse_state.current_direction) =
           Append(StatementsOf(parse_state, parse_state.current_direction),
                  parse_state.buf)
    /\ StatementsOf(parse_state', OtherDirection(parse_state.current_direction)) =
           StatementsOf(parse_state, OtherDirection(parse_state.current_direction))
    /\ ~parse_state'.ignore_semicolons

\* C18 as stated: whenever a StatementEnd directive is processed while a
\* direction is active, the buffer accumulated so far is appended as one
\* statement to the active direction and cleared, and ignore-semicolons mode is
\* off afterwards.
C18_StatementEndAlwaysTerminates ==
    [][ StatementEndRead => BufferBecomesStatement ]_vars

\* C18: a StatementEnd directive processed while a direction is active and
\* ignore-semicolons mode is on ends the statement at that line: the buffer is
\* appended as one statement to the active direction and cleared, whether or
\* not its lines end in semicolons, and the mode is off afterwards.  Processed
\* while the mode is off it ends nothing: the buffer, both statement sequences
\* and the mode stay as they are.
C18_StatementEndTerminatesBlock ==
    [][ StatementEndRead =>
          IF parse_state.ignore_semicolons
          THEN BufferBecomesStatement
          ELSE parse_pc' = "reading" /\ parse_state' = parse_state
      ]_vars

\* a block whose only line does not end in a semicolon was closed by
\* StatementEnd and became a statement
C18_Witness ==
    /\ content_read = << LineUp, LineStatementBegin, LineNoSemicolon, LineStatementEnd >>
    /\ parse_pc = "reading"
    /\ parse_state.buf = << >>
    /\ ~parse_state.ignore_semicolons
    /\ parse_state.parsed_migration.up_statements = << LineNoSemicolon \o << "\n" >> >>

\* the direction an Up or Down directive names
NamedDirection(line) ==
    IF line \in { LineUp, LineUpNoTransaction } THEN "UP" ELSE "DOWN"

\* an Up or Down directive is read
DirectiveRead ==
    /\ parse_pc = "reading"
    /\ Len(content_read') = Len(content_read) + 1
    /\ IsDirectionLine(content_read'[Len(content_read')])

\* the text holds a character that is not whitespace
HoldsContent(text) == \E i \in 1..Len(text) : text[i] \notin Whitespace

\* C24: an Up or Down directive read while the buffer holds a character that
\* is not whitespace ends the parse with the 'no terminator' error, and no
\* record is returned, whether a StatementBegin block is open or not; read
\* while the buffer is empty or whitespace only it is accepted, the buffer is
\* empty afterwards, the active direction is the one it names, and the
\* statements of both directions and the block mode are as before.
C24_DirectionSwitchNeedsEmptyBuffer ==
    [][ DirectiveRead =>
          IF HoldsContent(parse_state.buf)
          THEN /\ parse_pc' = "raised"
               /\ parse_out' = _raise_err_no_terminator
               /\ parse_out'.tag # "return"
               /\ parse_state' = parse_state
          ELSE /\ parse_pc' = "reading"
               /\ parse_out' = NotCalled
               /\ parse_state'.buf = << >>
               /\ parse_state'.current_direction =
                      NamedDirection(content_read'[Len(content_read')])
               /\ StatementsOf(parse_state', "UP") = StatementsOf(parse_state, "UP")
               /\ StatementsOf(parse_state', "DOWN") = StatementsOf(parse_state, "DOWN")
               /\ parse_state'.ignore_semicolons = parse_state.ignore_semicolons
      ]_vars

\* a Down directive inside an open StatementBegin block, the block holding a
\* line, has ended the parse with the 'no terminator' error
C24_Witness ==
    /\ content_read = << LineUp, LineStatementBegin, LineCreate, LineDown >>
    /\ parse_pc = "raised"
    /\ parse_out = _raise_err_no_terminator
    /\ parse_state.ignore_semicolons
    /\ HoldsContent(parse_state.buf)

\* the directive carries the option token 'notransaction'
CarriesNoTransaction(line) == EndsWith(line, << " " >> \o OPTION_NO_TRANSACTION)

\* the record but for its two transaction flags
WithoutFlags(record) ==
    [ record EXCEPT !.disable_transactions_up = FALSE,
                    !.disable_transactions_down = FALSE ]

\* C25: an accepted Up directive carrying 'notransaction' sets
\* disable_transactions_up and leaves disable_transactions_down as it is, an
\* accepted Down directive carrying it sets disable_transactions_down and
\* leaves disable_transactions_up as it is, and a directive without the
\* option leaves both flags as they are; the name, the status and the
\* statements accumulated in both directions are unchanged by any of them.
\* No line read resets a flag that is set.
C25_NoTransactionSetsOneFlag ==
    [][ /\ (DirectiveRead /\ parse_pc' = "reading") =>
              LET line == content_read'[Len(content_read')]
                  before == parse_state.parsed_migration
                  after == parse_state'.parsed_migration
              IN  /\ after.disable_transactions_up =
                         IF CarriesNoTransaction(line) /\ NamedDirection(line) = "UP"
                         THEN TRUE ELSE before.disable_transactions_up
                  /\ after.disable_transactions_down =
                         IF CarriesNoTransaction(line) /\ NamedDirection(line) = "DOWN"
                         THEN TRUE ELSE before.disable_transactions_down
                  /\ WithoutFlags(after) = WithoutFlags(before)
        /\ parse_pc = "reading" =>
              /\ parse_state.parsed_migration.disable_transactions_up
                    => parse_state'.parsed_migration.disable_transactions_up
              /\ parse_state.parsed_migration.disable_transactions_down
                    => parse_state'.parsed_migration.disable_transactions_down
              /\ parse_pc' = "returned" =>
                    parse_out'.ret = parse_state.parsed_migration
      ]_vars

\* Up with the option, a statement, Down with the option, then a plain Up:
\* both flags are set and stay set, and the statement is kept
C25_Witness ==
    /\ content_read = << LineUpNoTransaction, LineCreate, LineDownNoTransaction, LineUp >>
    /\ parse_pc = "returned"
    /\ parse_out.ret.disable_transactions_up
    /\ parse_out.ret.disable_transactions_down
    /\ parse_out.ret.up_statements = << LineCreate \o << "\n" >> >>
    /\ parse_out.ret.down_statements = << >>

(***************************************************************************)
(* More properties of do_migrate, checked under Spec.                      *)
(***************************************************************************)
\* the rows are the first names of the known migrations, in ascending order
IsPrefixOfKnown(rows) ==
    /\ rows \subseteq KnownNames
    /\ \A a \in rows, u \in KnownNames \ rows : StrLess(a, u)

\* the call has read the bookkeeping table
TableRead == pc \in { "plan", "loop", "statements", "commit", "returned", "raised" }

\* C19: when the rows a call of do_migrate reads pass validation against the
\* known migrations, then at every point of the call from there on, whatever
\* the direction, the limit and the transaction flags, and whether it returns
\* or fails at a statement or at a bookkeeping write, the committed rows are a
\* prefix of the known names in ascending order, so that plan_migrations on
\* the rows the call leaves raises neither InvalidMigrationApplyOrder nor
\* UnknownAppliedMigration.
C19_LinearHistoryPreserved ==
    (TableRead /\ PassesValidation) =>
        /\ IsPrefixOfKnown(table)
        /\ pc \in { "returned", "raised" } =>
              LET rows == get_migration_records(table)
              IN  \A d \in Direction :
                      plan_migrations(known_migrations, rows, d, NoLimit).tag = "return"

\* a Down run on a valid history has undone its first migration and failed in
\* its second
C19_Witness ==
    /\ pc = "raised"
    /\ outcome.tag = "ExecuteError"
    /\ options.direction = "DOWN"
    /\ PassesValidation
    /\ migration_i = 2
    /\ table # AppliedNames
    /\ table # {}

\* the statements of migration m in the direction of this call, as a list
StatementList(m) ==
    IF options.direction = "UP" THEN m.up_statements ELSE m.down_statements

\* of the statements of m, exactly the first n have their effect committed
FirstCommitted(m, n) ==
    \A i \in 1..Len(StatementList(m)) :
        (StatementList(m)[i] \in CommittedSince) <=> (i <= n)

\* the call is at migration k of its plan, or has failed in it
AtMigration(k) ==
    /\ migration_i = k
    /\ \/ pc = "statements"
       \/ pc = "raised" /\ outcome.tag = "ExecuteError"

\* C20: while do_migrate processes a migration whose flag for the chosen
\* direction disables transactions, no transaction is open and every statement
\* takes effect as soon as it is executed.  If statement j fails, the effects
\* of statements 1..j-1 stay committed and the bookkeeping rows are unchanged;
\* if the bookkeeping write fails, the effects of all statements stay and the
\* bookkeeping rows are unchanged.  This holds whatever the flag of the other
\* direction is.
C20_NoTransactionStepsIndependent ==
    \A k \in 1..Len(to_apply) :
        (AtMigration(k) /\ ~TransactionsEnabled(to_apply[k], options.direction)) =>
            /\ ~tx_open
            /\ ~BookkeepingChanged(to_apply[k].name)
            /\ pc = "statements" => FirstCommitted(to_apply[k], statement_i - 1)
            /\ pc = "raised" =>
                  LET failed == issued[Len(issued)]
                  IN  /\ ~failed.ok
                      /\ failed.name = to_apply[k].name
                      /\ failed.kind = "statement"
                            => FirstCommitted(to_apply[k], failed.i - 1)
                      /\ failed.kind # "statement"
                            => FirstCommitted(to_apply[k], Len(StatementList(to_apply[k])))

\* an Up migration that disables transactions for Up only has failed at its
\* second statement, the effect of its first statement staying in the database
C20_Witness ==
    /\ pc = "raised"
    /\ outcome.tag = "ExecuteError"
    /\ options.direction = "UP"
    /\ migration_i \in 1..Len(to_apply)
    /\ to_apply[migration_i].disable_transactions_up
    /\ ~to_apply[migration_i].disable_transactions_down
    /\ issued[Len(issued)].kind = "statement"
    /\ issued[Len(issued)].i = 2
    /\ to_apply[migration_i].up_statements[1] \in CommittedSince
    /\ ~BookkeepingChanged(to_apply[migration_i].name)

\* the errors of the reconciler
ReconcilerErrors == { "UnknownAppliedMigration", "InvalidMigrationApplyOrder" }

\* the call is before its for loop: ensuring the table, reading it, planning
BeforeLoop == pc \in { "ensure", "read", "plan" }

\* C21: up to and including the planning, a call of do_migrate changes neither
\* the bookkeeping rows nor the database (the creation of the table keeps the
\* rows it finds), opens no transaction and executes nothing but the creation
\* of the table; and when plan_migrations raises UnknownAppliedMigration or
\* InvalidMigrationApplyOrder, the call ends there with that very error, the
\* rows being those it read and no plan having been made.
C21_ReconcilerFailureChangesNothing ==
    [][ BeforeLoop =>
          /\ table' = table
          /\ db_log' = db_log
          /\ ~tx_open'
          /\ issued' \in { << >>, << Event("create", << >>, options.direction, 0, TRUE) >> }
          /\ pc' = "raised" =>
                /\ outcome'.tag \in ReconcilerErrors
                /\ outcome' = plan_migrations(known_migrations, applied_migrations,
                                              options.direction, options.limit)
                /\ table' = NameSet(applied_migrations)
                /\ Len(db_log') = log_base
                /\ to_apply' = << >>
                /\ migration_i' = 0
          /\ (pc = "plan" /\ plan_migrations(known_migrations, applied_migrations,
                                             options.direction, options.limit).tag
                                 \in ReconcilerErrors)
                => pc' = "raised" ]_vars

\* a Down run found an applied migration above an unapplied one, on a table
\* that existed and held rows, and ended with InvalidMigrationApplyOrder
C21_Witness ==
    /\ pc = "raised"
    /\ outcome.tag = "InvalidMigrationApplyOrder"
    /\ options.direction = "DOWN"
    /\ table # {}
    /\ table = NameSet(applied_migrations)
    /\ Len(issued) = 1

\* the conn.execute calls of the first k planned migrations, in the order the
\* plan and the statement lists of the requested direction give
RECURSIVE EventsOfPlan(_)
EventsOfPlan(k) ==
    IF k = 0 THEN << >>
    ELSE EventsOfPlan(k - 1)
         \o [ i \in 1..Len(StatementList(to_apply[k])) |->
                Event("statement", to_apply[k].name, options.direction, i, TRUE) ]
         \o << Event(MarkKind, to_apply[k].name, options.direction, 0, TRUE) >>

\* the statements of the first k planned migrations, in the same order
RECURSIVE EffectsOfPlan(_)
EffectsOfPlan(k) ==
    IF k = 0 THEN << >> ELSE EffectsOfPlan(k - 1) \o StatementList(to_apply[k])

\* s is the beginning of t
IsPrefix(s, t) == Len(s) <= Len(t) /\ SubSeq(t, 1, Len(s)) = s

\* the position in the plan of the migration called name
PlanIndex(name) == CHOOSE j \in 1..Len(to_apply) : to_apply[j].name = name

\* the statement effects a log holds beyond those present when the call started
SinceStart(log) == SubSeq(log, log_base + 1, Len(log))

\* C22: the conn.execute calls of one run, after the creation of the table,
\* are a beginning of: for each planned migration in plan order, its
\* statements of the requested direction in their listed order, then its
\* bookkeeping write; only the last call made may have failed.  Whenever the
\* call made last is a statement or write of the j-th planned migration, the
\* migrations before the j-th are committed, statements and bookkeeping
\* change.  The effects in the database are those of the statement lists of
\* the requested direction, and a transaction is open while a migration is
\* processed exactly when the flag of the requested direction does not
\* disable it.
C22_StrictlySequential ==
    Planned =>
        LET trace == Tail(issued)
            full == EventsOfPlan(Len(to_apply))
            effects == EffectsOfPlan(Len(to_apply))
            committed == SinceStart(db_log)
        IN  /\ issued[1].kind = "create"
            /\ Len(trace) <= Len(full)
            /\ \A p \in 1..Len(trace) :
                  /\ [ trace[p] EXCEPT !.ok = TRUE ] = full[p]
                  /\ ~trace[p].ok => (p = Len(trace) /\ pc = "raised")
            /\ trace # << >> =>
                  LET j == PlanIndex(trace[Len(trace)].name)
                  IN  /\ IsPrefix(EffectsOfPlan(j - 1), committed)
                      /\ \A k \in 1..(j - 1) : BookkeepingChanged(to_apply[k].name)
            /\ IsPrefix(committed, effects)
            /\ tx_open => IsPrefix(SinceStart(tx_log), effects)
            /\ pc \in { "statements", "commit" } =>
                  (tx_open <=> TransactionsEnabled(Current, options.direction))
            /\ pc \in { "loop", "returned", "raised" } => ~tx_open

\* an Up run is at the second statement of its second migration, inside a
\* transaction, its first migration having run without one
C22_Witness ==
    /\ pc = "statements"
    /\ options.direction = "UP"
    /\ Len(to_apply) = 3
    /\ migration_i = 2
    /\ statement_i = 2
    /\ tx_open
    /\ to_apply[1].disable_transactions_up
    /\ ~to_apply[1].disable_transactions_down
    /\ Len(issued) = 5

\* the call before this one was an unlimited Up run that returned, and this
\* call is an unlimited Down run
DownAfterUp ==
    /\ previous.tag = "called"
    /\ previous.outcome.tag = "return"
    /\ previous.options = MigrationOptions("UP", NoLimit)
    /\ options = MigrationOptions("DOWN", NoLimit)

\* the migrations of this plan that the plan of the call before held too
AlsoInPreviousPlan ==
    LET InPrevious(m) == m.name \in NameSet(previous.to_apply)
    IN  SelectSeq(to_apply, InPrevious)

\* C23: when do_migrate returns, it returns the length of its plan, the
\* planned names are distinct, and the committed rows are the rows the call
\* read plus the planned names, none of which was among them (Up), or minus
\* the planned names, all of which were (Down); the committed statements of
\* the call are those of the plan, in plan order.  When an unlimited Up run
\* has returned and an unlimited Down run on the same migrations returns
\* after it, the table is empty and the Down run went through every known
\* migration in descending name order, so through those of the Up run in
\* the reverse of the Up run's order.
C23_ReturnMatchesPlan ==
    pc = "returned" =>
        /\ outcome = Returned(Len(to_apply))
        /\ Cardinality(NameSet(to_apply)) = Len(to_apply)
        /\ options.direction = "UP" =>
              /\ NameSet(to_apply) \cap NameSet(applied_migrations) = {}
              /\ table = NameSet(applied_migrations) \cup NameSet(to_apply)
        /\ options.direction = "DOWN" =>
              /\ NameSet(to_apply) \subseteq NameSet(applied_migrations)
              /\ table = NameSet(applied_migrations) \ NameSet(to_apply)
        /\ SinceStart(db_log) = EffectsOfPlan(Len(to_apply))
        /\ DownAfterUp =>
              /\ table = {}
              /\ NameSet(to_apply) = KnownNames
              /\ StrictlyDescending(to_apply)
              /\ AlsoInPreviousPlan = Reversed(previous.to_apply)
              /\ Len(previous.to_apply) = Len(known_migrations)
                    => to_apply = Reversed(previous.to_apply)

\* an unlimited Up run applied two of three migrations, the first being
\* applied already, and the unlimited Down run after it undid all three
C23_Witness ==
    /\ pc = "returned"
    /\ DownAfterUp
    /\ Len(previous.to_apply) = 2
    /\ Len(to_apply) = 3
    /\ outcome = Returned(3)
    /\ table = {}

(***************************************************************************)
(* driver.py: get_driver(dsn) over the entry points of the group           *)
(* 'aiomigrate.drivers'.  An entry point is its name, dist, module_name    *)
(* and attrs, and what its resolve() gives.                                *)
(***************************************************************************)
\* the most entry points registered
MaxEntries == 2

\* what resolve() gives: a subclass of Driver or some other class
Resolutions == { "DriverSubclass", "OtherClass" }

EntryPoint(name, attrs, resolves_to) ==
    [ name |-> name, dist |-> << "d" >>, module_name |-> << "m" >>, attrs |-> attrs,
      resolves_to |-> resolves_to ]

\* the names drivers are registered under: pg, my
DriverNames == { << "p", "g" >>, << "m", "y" >> }

EntryPoints ==
    { EntryPoint(name, attrs, resolves_to) :
        name \in DriverNames, attrs \in { << >>, << << "C" >> >> },
        resolves_to \in Resolutions }

\* pkg_resources.iter_entry_points('aiomigrate.drivers')
Registries ==
    UNION { [ 1..n -> EntryPoints ] : n \in 0..MaxEntries }

\* "pg://u@h"
DsnPg == << "p", "g", ":", "/", "/", "u", "@", "h" >>

\* "pg://v:w@h"
DsnPgOtherUser == << "p", "g", ":", "/", "/", "v", ":", "w", "@", "h" >>

\* "my://u@h"
DsnMy == << "m", "y", ":", "/", "/", "u", "@", "h" >>

\* "pg://u://h"
DsnTwoSeparators == << "p", "g", ":", "/", "/", "u", ":", "/", "/", "h" >>

\* "pg"
DsnNoSeparator == << "p", "g" >>

\* "ms://u@h"
DsnUnregistered == << "m", "s", ":", "/", "/", "u", "@", "h" >>

Dsns == { DsnPg, DsnPgOtherUser, DsnMy, DsnTwoSeparators, DsnNoSeparator, DsnUnregistered }

\* '.'.join(attrs)
RECURSIVE JoinDots(_)
JoinDots(attrs) ==
    IF attrs = << >> THEN << >>
    ELSE IF Len(attrs) = 1 THEN Head(attrs)
    ELSE Head(attrs) \o << "." >> \o JoinDots(Tail(attrs))

\* DriverExtensionMetadata(name, distribution, object_location) of an entry point
DriverExtensionMetadata(entry_point) ==
    [ name |-> entry_point.name,
      distribution |-> entry_point.dist,
      object_location |->
          IF entry_point.attrs # << >>
          THEN entry_point.module_name \o << ":" >> \o JoinDots(entry_point.attrs)
          ELSE entry_point.module_name ]

\* the outcome of get_driver, with the entry points it resolved and instantiated
DriverOutcome(tag, value, resolved, instantiated) ==
    [ tag |-> tag, value |-> value, resolved |-> resolved, instantiated |-> instantiated ]

\* the text of a RuntimeError of get_driver: the fixed wording, the safe_dsn
\* and the str() of the metadata put into it
DriverMessage(wording, lookup_driver_name, listed) ==
    [ wording |-> wording,
      safe_dsn |-> lookup_driver_name \o << ":", "/", "/" >>,
      listed |-> listed ]

\* the RuntimeError for a matched entry that is no Driver
NotSubclassMessage(metadata, lookup_driver_name) ==
    DriverMessage("{metadata} found for database dsn '{safe_dsn}' is not a subclass of Driver interface",
                  lookup_driver_name, << metadata >>)

\* mutant of NoDriverMessage: the registered drivers are not listed
NoDriverMessageWithoutList(lookup_driver_name, available_drivers) ==
    DriverMessage("No driver found for database dsn '{safe_dsn}', no available drivers found at all",
                  lookup_driver_name, << >>)

\* the RuntimeError after the loop
NoDriverMessage(lookup_driver_name, available_drivers) ==
    IF available_drivers # << >>
    THEN DriverMessage("No driver found for database dsn '{safe_dsn}', available drivers are {known}",
                       lookup_driver_name, available_drivers)
    ELSE DriverMessage("No driver found for database dsn '{safe_dsn}', no available drivers found at all",
                       lookup_driver_name, << >>)

\* the for loop of get_driver from entry point i on
RECURSIVE GetDriverLoop(_, _, _, _)
GetDriverLoop(registered, i, lookup_driver_name, available_drivers) ==
    IF i > Len(registered)
    THEN DriverOutcome("RuntimeError",
                       NoDriverMessage(lookup_driver_name, available_drivers),
                       << >>, << >>)
    ELSE LET metadata == DriverExtensionMetadata(registered[i])
         IN  IF registered[i].name = lookup_driver_name
             THEN IF registered[i].resolves_to # "DriverSubclass"
                  THEN DriverOutcome("RuntimeError",
                                     NotSubclassMessage(metadata, lookup_driver_name),
                                     << i >>, << >>)
                  ELSE DriverOutcome("return", [ instance_of |-> i ], << i >>, << i >>)
             ELSE GetDriverLoop(registered, i + 1, lookup_driver_name,
                                Append(available_drivers, metadata))

\* mutant of get_driver: the whole DSN is looked up
get_driver_by_whole_dsn(the_dsn, registered) ==
    GetDriverLoop(registered, 1, the_dsn, << >>)

\* get_driver(dsn)
get_driver(the_dsn, registered) ==
    GetDriverLoop(registered, 1, BeforeFirst(the_dsn, << ":", "/", "/" >>), << >>)

(***************************************************************************)
(* SpecDriver: get_driver on two DSNs and one registry.                    *)
(***************************************************************************)
InitDriver ==
    /\ known_migrations = << >>
    /\ applied_migrations = << >>
    /\ options = MigrationOptions("UP", NoLimit)
    /\ pc = "idle"
    /\ PlanIdle
    /\ RunIdle
    /\ ParseIdle
    /\ dsn \in Dsns
    /\ other_dsn \in Dsns
    /\ entry_points \in Registries
    /\ driver_out = NotCalled
    /\ other_driver_out = NotCalled
    /\ OpIdle
    /\ RaceIdle

CallGetDriver ==
    /\ driver_out = NotCalled
    /\ driver_out' = get_driver(dsn, entry_points)
    /\ UNCHANGED << shared_vars, plan_only_vars, run_only_vars, parse_vars, op_vars, race_vars,
                    dsn, other_dsn, entry_points, other_driver_out >>

CallGetDriverOther ==
    /\ other_driver_out = NotCalled
    /\ other_driver_out' = get_driver(other_dsn, entry_points)
    /\ UNCHANGED << shared_vars, plan_only_vars, run_only_vars, parse_vars, op_vars, race_vars,
                    dsn, other_dsn, entry_points, driver_out >>

NextDriver == CallGetDriver \/ CallGetDriverOther

SpecDriver == InitDriver /\ [][NextDriver]_vars

(***************************************************************************)
(* operations.py: migrate and migration_status, with files_loader.py and   *)
(* db.connection.                                                          *)
(***************************************************************************)
\* parse_migration(name, content): the loop over the lines, then the checks
RECURSIVE ParseLines(_, _, _)
ParseLines(state, content, i) ==
    IF i > Len(content) THEN EndOfInput(state)
    ELSE LET result == ParseLine(state, content[i] \o << "\n" >>)
         IN  IF result.tag = "ok" THEN ParseLines(result.state, content, i + 1)
             ELSE result

parse_migration(name, content) == ParseLines(InitialParseState(name), content, 1)

\* a file of the migrations directory
File(name, content) == [ name |-> name, content |-> content ]

\* the files of the directory: one that parses, one that disables the
\* transaction of its Up statements, one whose statement is not terminated
FileContents ==
    { << LineUp, LineCreate, LineDown, LineDrop >>,
      << LineUpNoTransaction, LineCreate, LineDown, LineDrop >>,
      << LineUp, LineNoSemicolon >> }

\* pkg_resources.resource_listdir: the files in the order they are listed
Directories ==
    UNION { { [ i \in 1..Len(names) |-> File(names[i], contents[i]) ] :
                contents \in [ 1..Len(names) -> FileContents ] } :
            names \in UNION { Orderings(S) : S \in SUBSET FileNames } }

\* mutant of LoadFrom: a file that does not parse is left out
RECURSIVE LoadFromSkippingErrors(_, _, _)
LoadFromSkippingErrors(files, i, ret) ==
    IF i > Len(files) THEN Returned(ret)
    ELSE LET parsed == parse_migration(files[i].name, files[i].content)
         IN  IF parsed.tag = "return"
             THEN LoadFromSkippingErrors(files, i + 1, Append(ret, parsed.ret))
             ELSE LoadFromSkippingErrors(files, i + 1, ret)

\* PackageLoader.load from the i-th file on: the first parse error leaves it
RECURSIVE LoadFrom(_, _, _)
LoadFrom(files, i, ret) ==
    IF i > Len(files) THEN Returned(ret)
    ELSE LET parsed == parse_migration(files[i].name, files[i].content)
         IN  IF parsed.tag = "return"
             THEN LoadFrom(files, i + 1, Append(ret, parsed.ret))
             ELSE parsed

\* PackageLoader.load(source)
load(files) == LoadFrom(files, 1, << >>)

\* mutant of ConnectionAfterBody: an exception in the body skips the release
ConnectionAfterBodyLeaks(body_pc) ==
    IF body_pc = "raised" THEN "held" ELSE "released"

\* db.connection: `async with pool.acquire()` is left, by return or exception
ConnectionAfterBody(body_pc) == "released"

\* the registries an operation runs under: the pg driver, or a class that is
\* no Driver
OperationRegistries ==
    { << EntryPoint(<< "p", "g" >>, << << "C" >> >>, resolves_to) >> :
        resolves_to \in Resolutions }

InitMigrate ==
    /\ known_migrations = << >>
    /\ applied_migrations = << >>
    /\ options = MigrationOptions("UP", NoLimit)
    /\ pc = "idle"
    /\ PlanIdle
    /\ table_exists \in BOOLEAN
    /\ table \in (IF table_exists THEN SUBSET FileNames ELSE { {} })
    /\ db_log = << >>
    /\ tx_open = FALSE
    /\ tx_table = {}
    /\ tx_log = << >>
    /\ to_apply = << >>
    /\ migration_i = 0
    /\ statement_i = 0
    /\ outcome = NotCalled
    /\ issued = << >>
    /\ log_base = 0
    /\ previous = NotCalled
    /\ ParseIdle
    /\ dsn = DsnPg
    /\ other_dsn = << >>
    /\ entry_points \in OperationRegistries
    /\ driver_out = NotCalled
    /\ other_driver_out = NotCalled
    /\ operation \in { "migrate", "migration_status" }
    /\ op_pc = "get_driver"
    /\ directory \in Directories
    /\ pool = "none"
    /\ conn = "none"
    /\ op_out = NotCalled
    /\ RaceIdle

\* db_driver = driver.get_driver(cfg.dsn)
OpGetDriver ==
    /\ op_pc = "get_driver"
    /\ driver_out' = get_driver(dsn, entry_points)
    /\ IF driver_out'.tag = "return"
       THEN op_pc' = "load" /\ UNCHANGED op_out
       ELSE op_pc' = "failed" /\ op_out' = driver_out'
    /\ UNCHANGED << shared_vars, plan_only_vars, run_only_vars, parse_vars,
                    dsn, other_dsn, entry_points, other_driver_out,
                    operation, directory, pool, conn, race_vars >>

\* known_migrations = loader.load(cfg.files_source)
OpLoad ==
    /\ op_pc = "load"
    /\ LET loaded == load(directory)
       IN  IF loaded.tag = "return"
           THEN /\ known_migrations' = loaded.ret
                /\ op_pc' = "create_pool"
                /\ UNCHANGED op_out
           ELSE /\ op_out' = loaded
                /\ op_pc' = "failed"
                /\ UNCHANGED known_migrations
    /\ UNCHANGED << applied_migrations, options, pc, plan_only_vars, run_only_vars,
                    parse_vars, driver_vars, operation, directory, pool, conn, race_vars >>

\* db.connection: pool = await db_driver.create_pool(cfg.dsn)
OpCreatePool ==
    /\ op_pc = "create_pool"
    /\ \E ok \in BOOLEAN :
          IF ok
          THEN pool' = "open" /\ op_pc' = "acquire" /\ UNCHANGED op_out
          ELSE /\ op_out' = [ tag |-> "ConnectError", at |-> "create_pool" ]
               /\ op_pc' = "failed"
               /\ UNCHANGED pool
    /\ UNCHANGED << shared_vars, plan_only_vars, run_only_vars, parse_vars, driver_vars,
                    operation, directory, conn, race_vars >>

\* db.connection: `async with pool.acquire() as conn` is entered
OpAcquire ==
    /\ op_pc = "acquire"
    /\ \E ok \in BOOLEAN :
          IF ok
          THEN conn' = "held" /\ op_pc' = "body" /\ UNCHANGED op_out
          ELSE /\ op_out' = [ tag |-> "ConnectError", at |-> "acquire" ]
               /\ op_pc' = "failed"
               /\ UNCHANGED conn
    /\ UNCHANGED << shared_vars, plan_only_vars, run_only_vars, parse_vars, driver_vars,
                    operation, directory, pool, race_vars >>

\* migrate: number = await db.do_migrate(conn, cfg, options, known_migrations)
OpCallDoMigrate ==
    /\ op_pc = "body"
    /\ operation = "migrate"
    /\ pc = "idle"
    /\ EnterDoMigrate
    /\ UNCHANGED previous

\* migration_status: migrations = await db.list_migrations(conn, cfg, known_migrations)
OpCallListMigrations ==
    /\ op_pc = "body"
    /\ operation = "migration_status"
    /\ pc = "idle"
    /\ pc' = "status_ensure"
    /\ UNCHANGED << known_migrations, applied_migrations, options, plan_only_vars,
                    run_only_vars, parse_vars, driver_vars, op_vars, race_vars >>

\* db.list_migrations: await ensure_migration_table(conn, cfg.table)
StatusEnsureMigrationTable ==
    /\ pc = "status_ensure"
    /\ table_exists' = TRUE
    /\ issued' = Append(issued, Event("create", << >>, options.direction, 0, TRUE))
    /\ pc' = "status_read"
    /\ UNCHANGED << known_migrations, applied_migrations, options, plan_only_vars,
                    parse_vars, driver_vars, op_vars, race_vars, table, db_log, tx_vars, to_apply,
                    migration_i, statement_i, outcome, log_base, previous >>

\* db.list_migrations: applied_migrations = await get_migration_records(...)
StatusGetMigrationRecords ==
    /\ pc = "status_read"
    /\ applied_migrations' = get_migration_records(table)
    /\ pc' = "status_list"
    /\ UNCHANGED << known_migrations, options, plan_only_vars, run_only_vars,
                    parse_vars, driver_vars, op_vars, race_vars >>

\* db.list_migrations: return plan.list_migrations(known_migrations, applied_migrations)
StatusListMigrations ==
    /\ pc = "status_list"
    /\ outcome' = list_migrations(known_migrations, applied_migrations)
    /\ pc' = IF outcome'.tag = "return" THEN "returned" ELSE "raised"
    /\ UNCHANGED << known_migrations, applied_migrations, options, plan_only_vars,
                    parse_vars, driver_vars, op_vars, race_vars, db_vars, tx_vars, to_apply,
                    migration_i, statement_i, issued, log_base, previous >>

\* db.connection: the body of `async with db.connection(...)` is over, the
\* block of pool.acquire() is left; after an exception of the body the
\* generator is left at once and `await pool.close()` is not reached
OpLeaveBody ==
    /\ op_pc = "body"
    /\ pc \in { "returned", "raised" }
    /\ conn' = ConnectionAfterBody(pc)
    /\ IF pc = "returned"
       THEN op_pc' = "close_pool" /\ UNCHANGED op_out
       ELSE op_pc' = "failed" /\ op_out' = outcome
    /\ UNCHANGED << shared_vars, plan_only_vars, run_only_vars, parse_vars, driver_vars,
                    operation, directory, pool, race_vars >>

\* db.connection: await pool.close(); the operation returns what the body did
OpClosePool ==
    /\ op_pc = "close_pool"
    /\ pool' = "closed"
    /\ op_out' = outcome
    /\ op_pc' = "done"
    /\ UNCHANGED << shared_vars, plan_only_vars, run_only_vars, parse_vars, driver_vars,
                    operation, directory, conn, race_vars >>

NextMigrate ==
    \/ OpGetDriver
    \/ OpLoad
    \/ OpCreatePool
    \/ OpAcquire
    \/ OpCallDoMigrate
    \/ OpCallListMigrations
    \/ EnsureMigrationTable
    \/ GetMigrationRecords
    \/ PlanMigrations
    \/ BeginMigration
    \/ ExecuteStatement
    \/ ExecuteStatementFails
    \/ MarkMigration
    \/ MarkMigrationFails
    \/ CommitTransaction
    \/ ReturnCount
    \/ StatusEnsureMigrationTable
    \/ StatusGetMigrationRecords
    \/ StatusListMigrations
    \/ OpLeaveBody
    \/ OpClosePool

SpecMigrate == InitMigrate /\ [][NextMigrate]_vars

(***************************************************************************)
(* Two calls of do_migrate, direction Up, on one database and with the     *)
(* same known migrations, each on a connection of its own.  do_migrate     *)
(* takes no lock (db.py:65-96), so the steps of the two calls interleave   *)
(* freely.  The database is PostgreSQL as postgres.py uses it: the name    *)
(* column is the primary key (postgres.py:66), what a transaction has done *)
(* is seen by the other connection once it is committed, an INSERT of a    *)
(* name that is committed fails, and an INSERT of a name another open      *)
(* transaction has inserted waits until that transaction ends.             *)
(***************************************************************************)
\* the two calls
Runs == { 1, 2 }

\* the other call
OtherRun(r) == CHOOSE q \in Runs : q # r

\* the known migrations of the two calls: each file opts out of the
\* transaction of its Up statements or does not
RaceKnownLists ==
    UNION { { SortedByName([ i \in 1..Cardinality(S) |->
                               ParsedFile(IterSet(S)[i], f[IterSet(S)[i]], FALSE) ])
              : f \in [S -> BOOLEAN] }
            : S \in SUBSET FileNames }

\* the locals of a call at its entry, and what its connection holds
EnteredRun ==
    [ pc |-> "ensure",
      applied_migrations |-> << >>,
      to_apply |-> << >>,
      migration_i |-> 0,
      statement_i |-> 0,
      outcome |-> NotCalled,
      tx_open |-> FALSE,
      tx_rows |-> {},           \* rows inserted by the open transaction
      tx_log |-> << >>,         \* statement effects of the open transaction
      committed |-> << >> ]     \* history: the migrations this call committed

InitRace ==
    /\ known_migrations \in RaceKnownLists
    /\ applied_migrations = << >>
    /\ options = MigrationOptions("UP", NoLimit)
    /\ pc = "idle"
    /\ PlanIdle
    /\ table_exists \in BOOLEAN
    /\ table \in (IF table_exists THEN SUBSET FileNames ELSE { {} })
    /\ db_log = << >>
    /\ tx_open = FALSE
    /\ tx_table = {}
    /\ tx_log = << >>
    /\ to_apply = << >>
    /\ migration_i = 0
    /\ statement_i = 0
    /\ outcome = NotCalled
    /\ issued = << >>
    /\ log_base = 0
    /\ previous = NotCalled
    /\ ParseIdle
    /\ DriverIdle
    /\ OpIdle
    /\ runs = [ r \in Runs |-> EnteredRun ]

\* what no step of the two calls touches
RaceFrame ==
    UNCHANGED << shared_vars, plan_only_vars, tx_vars, to_apply, migration_i, statement_i,
                 outcome, issued, log_base, previous, parse_vars, driver_vars, op_vars >>

\* the migration call r is at, and its statements
RaceCurrent(r) == runs[r].to_apply[runs[r].migration_i]

RaceStatements(r) == SelectStatements(RaceCurrent(r), options.direction)

\* the rows open transactions of other connections have inserted
InsertedElsewhere(r) ==
    UNION { runs[q].tx_rows : q \in { q \in Runs : q # r /\ runs[q].tx_open } }

\* the INSERT of call r waits: another open transaction has inserted the name
RaceInsertWaits(r) == RaceCurrent(r).name \in InsertedElsewhere(r)

\* an exception leaves do_migrate; an open transaction is rolled back
RaceRaise(r, error) ==
    runs' = [ runs EXCEPT ![r] = [ @ EXCEPT !.pc = AfterError(runs[r].migration_i).pc,
                                            !.outcome = error,
                                            !.tx_open = FALSE,
                                            !.tx_rows = {},
                                            !.tx_log = << >> ] ]

\* call r: await ensure_migration_table(conn, cfg.table)
RaceEnsureMigrationTable(r) ==
    /\ runs[r].pc = "ensure"
    /\ table_exists' = TRUE
    /\ runs' = [ runs EXCEPT ![r].pc = "read" ]
    /\ UNCHANGED << table, db_log >>
    /\ RaceFrame

\* call r: applied_migrations = await get_migration_records(conn, cfg.table)
RaceGetMigrationRecords(r) ==
    /\ runs[r].pc = "read"
    /\ runs' = [ runs EXCEPT ![r].pc = "plan",
                             ![r].applied_migrations = get_migration_records(table) ]
    /\ UNCHANGED db_vars
    /\ RaceFrame

\* call r: to_apply = plan.plan_migrations(...)
RacePlanMigrations(r) ==
    /\ runs[r].pc = "plan"
    /\ LET planned == plan_migrations(known_migrations, runs[r].applied_migrations,
                                      options.direction, options.limit)
       IN  IF planned.tag = "return"
           THEN runs' = [ runs EXCEPT ![r].to_apply = planned.ret,
                                      ![r].migration_i = 1,
                                      ![r].pc = "loop" ]
           ELSE runs' = [ runs EXCEPT ![r].outcome = planned, ![r].pc = "raised" ]
    /\ UNCHANGED db_vars
    /\ RaceFrame

\* call r: the next migration of the for loop; conn.transaction() unless disabled
RaceBeginMigration(r) ==
    /\ runs[r].pc = "loop"
    /\ runs[r].migration_i <= Len(runs[r].to_apply)
    /\ runs' = [ runs EXCEPT ![r].pc = "statements",
                             ![r].statement_i = 1,
                             ![r].tx_open =
                                 ~DisableTransactions(RaceCurrent(r), options.direction) ]
    /\ UNCHANGED db_vars
    /\ RaceFrame

\* call r: await conn.execute(statement) succeeds
RaceExecuteStatement(r) ==
    /\ runs[r].pc = "statements"
    /\ runs[r].statement_i <= Len(RaceStatements(r))
    /\ IF runs[r].tx_open
       THEN /\ runs' = [ runs EXCEPT
                           ![r].tx_log = Append(@, RaceStatements(r)[runs[r].statement_i]),
                           ![r].statement_i = @ + 1 ]
            /\ UNCHANGED db_log
       ELSE /\ db_log' = Append(db_log, RaceStatements(r)[runs[r].statement_i])
            /\ runs' = [ runs EXCEPT ![r].statement_i = @ + 1 ]
    /\ UNCHANGED << table_exists, table >>
    /\ RaceFrame

\* call r: await conn.execute(statement) raises
RaceExecuteStatementFails(r) ==
    /\ runs[r].pc = "statements"
    /\ runs[r].statement_i <= Len(RaceStatements(r))
    /\ RaceRaise(r, ExecuteError(Event("statement", RaceCurrent(r).name, options.direction,
                                       runs[r].statement_i, FALSE)))
    /\ UNCHANGED db_vars
    /\ RaceFrame

\* call r: await mark_migration(...) succeeds: the name is not in the table
\* and no open transaction has inserted it
RaceMarkMigration(r) ==
    /\ runs[r].pc = "statements"
    /\ runs[r].statement_i = Len(RaceStatements(r)) + 1
    /\ ~MarkRefused(table, options.direction, RaceCurrent(r).name)
    /\ ~RaceInsertWaits(r)
    /\ IF runs[r].tx_open
       THEN /\ runs' = [ runs EXCEPT ![r].tx_rows = { RaceCurrent(r).name },
                                      ![r].pc = "commit" ]
            /\ UNCHANGED table
       ELSE /\ table' = mark_migration(table, options.direction, RaceCurrent(r).name)
            /\ runs' = [ runs EXCEPT ![r].committed = Append(@, RaceCurrent(r).name),
                                      ![r].migration_i = @ + 1,
                                      ![r].pc = "loop" ]
    /\ UNCHANGED << table_exists, db_log >>
    /\ RaceFrame

\* call r: await mark_migration(...) raises, the primary key refusing the
\* name or for any other reason
RaceMarkMigrationFails(r) ==
    /\ runs[r].pc = "statements"
    /\ runs[r].statement_i = Len(RaceStatements(r)) + 1
    /\ ~RaceInsertWaits(r)
    /\ RaceRaise(r, ExecuteError(Event(MarkKind, RaceCurrent(r).name, options.direction,
                                       0, FALSE)))
    /\ UNCHANGED db_vars
    /\ RaceFrame

\* call r: the block of conn.transaction() is left: COMMIT
RaceCommitTransaction(r) ==
    /\ runs[r].pc = "commit"
    /\ table' = table \cup runs[r].tx_rows
    /\ db_log' = db_log \o runs[r].tx_log
    /\ runs' = [ runs EXCEPT ![r].committed = Append(@, RaceCurrent(r).name),
                             ![r].tx_open = FALSE,
                             ![r].tx_rows = {},
                             ![r].tx_log = << >>,
                             ![r].migration_i = @ + 1,
                             ![r].pc = "loop" ]
    /\ UNCHANGED table_exists
    /\ RaceFrame

\* call r: return len(to_apply)
RaceReturnCount(r) ==
    /\ runs[r].pc = "loop"
    /\ runs[r].migration_i > Len(runs[r].to_apply)
    /\ runs' = [ runs EXCEPT ![r].outcome = Returned(Len(runs[r].to_apply)),
                             ![r].pc = "returned" ]
    /\ UNCHANGED db_vars
    /\ RaceFrame

NextRace ==
    \/ \E r \in Runs : RaceEnsureMigrationTable(r)
    \/ \E r \in Runs : RaceGetMigrationRecords(r)
    \/ \E r \in Runs : RacePlanMigrations(r)
    \/ \E r \in Runs : RaceBeginMigration(r)
    \/ \E r \in Runs : RaceExecuteStatement(r)
    \/ \E r \in Runs : RaceExecuteStatementFails(r)
    \/ \E r \in Runs : RaceMarkMigration(r)
    \/ \E r \in Runs : RaceMarkMigrationFails(r)
    \/ \E r \in Runs : RaceCommitTransaction(r)
    \/ \E r \in Runs : RaceReturnCount(r)

SpecRace == InitRace /\ [][NextRace]_vars

(***************************************************************************)
(* Properties of get_driver, checked under SpecDriver.                     *)
(***************************************************************************)
\* the text of a DSN before its first "://", the whole of it if there is none
SchemeOf(the_dsn) ==
    LET at == { k \in 1..(Len(the_dsn) - 2) :
                  the_dsn[k] = ":" /\ the_dsn[k + 1] = "/" /\ the_dsn[k + 2] = "/" }
    IN  IF at = {} THEN the_dsn
        ELSE SubSeq(the_dsn, 1, (CHOOSE k \in at : \A j \in at : k <= j) - 1)

\* the positions of the entry points registered under the scheme of dsn
Matching == { i \in 1..Len(entry_points) : entry_points[i].name = SchemeOf(dsn) }

FirstMatching == CHOOSE i \in Matching : \A j \in Matching : i <= j

Range(s) == { s[i] : i \in 1..Len(s) }

\* C16: get_driver(dsn) returns an instance of the class of the first entry
\* point whose name is the text of dsn before '://' when that class is a
\* subclass of Driver, and raises when it is not; when no name matches it
\* raises an error that lists every registered entry point in order, or says
\* that none is available when nothing is registered.  No entry point but the
\* matched one is resolved or instantiated.
C16_GetDriverSelectsByScheme ==
    driver_out # NotCalled =>
        /\ Matching # {} =>
              /\ Range(driver_out.resolved) = { FirstMatching }
              /\ entry_points[FirstMatching].resolves_to = "DriverSubclass" =>
                    /\ driver_out.tag = "return"
                    /\ driver_out.value.instance_of = FirstMatching
                    /\ Range(driver_out.instantiated) = { FirstMatching }
              /\ entry_points[FirstMatching].resolves_to # "DriverSubclass" =>
                    /\ driver_out.tag = "RuntimeError"
                    /\ driver_out.instantiated = << >>
        /\ Matching = {} =>
              /\ driver_out.tag = "RuntimeError"
              /\ driver_out.resolved = << >>
              /\ driver_out.instantiated = << >>
              /\ driver_out.value.listed =
                     [ i \in 1..Len(entry_points) |-> DriverExtensionMetadata(entry_points[i]) ]
              /\ driver_out.value.wording =
                     IF entry_points = << >>
                     THEN "No driver found for database dsn '{safe_dsn}', no available drivers found at all"
                     ELSE "No driver found for database dsn '{safe_dsn}', available drivers are {known}"

\* of two entry points named pg the first one, a Driver subclass, was
\* instantiated and the second one left alone
C16_Witness ==
    /\ dsn = DsnPg
    /\ Len(entry_points) = 2
    /\ entry_points[1].name = << "p", "g" >>
    /\ entry_points[2].name = << "p", "g" >>
    /\ entry_points[1].resolves_to = "DriverSubclass"
    /\ entry_points[2].resolves_to = "OtherClass"
    /\ driver_out.tag = "return"
    /\ driver_out.value.instance_of = 1

\* C17: two DSNs with the same text before '://', looked up in the same
\* registry, get the same outcome from get_driver: the same driver class or
\* the same error, whose text carries of the DSN the scheme and '://' only.
C17_OutcomeDependsOnSchemeOnly ==
    (driver_out # NotCalled /\ other_driver_out # NotCalled
        /\ SchemeOf(dsn) = SchemeOf(other_dsn)) =>
        /\ driver_out = other_driver_out
        /\ driver_out.tag = "RuntimeError" =>
              driver_out.value.safe_dsn = SchemeOf(dsn) \o << ":", "/", "/" >>

\* two DSNs of the same scheme but different users were refused with one error
C17_Witness ==
    /\ dsn = DsnPg
    /\ other_dsn = DsnPgOtherUser
    /\ entry_points # << >>
    /\ driver_out # NotCalled
    /\ driver_out.tag = "RuntimeError"
    /\ other_driver_out = driver_out

(***************************************************************************)
(* Properties of migrate and migration_status, checked under SpecMigrate.  *)
(***************************************************************************)
\* file i of the directory parses
FileParses(i) ==
    parse_migration(directory[i].name, directory[i].content).tag = "return"

\* no pool, no connection, and not one statement sent to the database
DatabaseUntouched ==
    /\ pool = "none"
    /\ conn = "none"
    /\ pc = "idle"
    /\ issued = << >>
    /\ db_log = << >>
    /\ ~tx_open

\* C14: in migrate and in migration_status every file is loaded and parsed
\* before the database is touched: once a pool exists the known migrations are
\* the parsed files, all of them; and if some file does not parse the
\* operation fails with no pool created, no connection acquired and no SQL
\* executed, the creation of the bookkeeping table included.
C14_ParsedBeforeDatabase ==
    LET parsed == [ i \in 1..Len(directory) |->
                      parse_migration(directory[i].name, directory[i].content) ]
    IN  /\ ~DatabaseUntouched =>
              /\ op_pc \notin { "get_driver", "load" }
              /\ Len(known_migrations) = Len(directory)
              /\ \A i \in 1..Len(directory) :
                    parsed[i].tag = "return" /\ known_migrations[i] = parsed[i].ret
        /\ (\E i \in 1..Len(directory) : parsed[i].tag # "return") =>
              /\ DatabaseUntouched
              /\ op_pc \in { "get_driver", "load", "failed" }
              /\ (op_pc = "failed" /\ driver_out.tag = "return")
                    => op_out.tag = "MigrationParseError"

\* migrate failed on the last of three files, the two before it being fine
C14_Witness ==
    /\ operation = "migrate"
    /\ op_pc = "failed"
    /\ op_out.tag = "MigrationParseError"
    /\ Len(directory) = 3
    /\ FileParses(1)
    /\ FileParses(2)
    /\ DatabaseUntouched

\* C15: the connection db.connection hands out is held only while the body of
\* the scope runs and is released on every way out of it: whenever the
\* operation is over, with a result or with a failure at any step (a failing
\* statement or bookkeeping write in the middle of a migration included), no
\* connection is held.
C15_ConnectionReleased ==
    /\ conn = "held" => (op_pc = "body" /\ pool = "open")
    /\ op_pc \in { "close_pool", "done", "failed" } => conn # "held"
    /\ (op_pc \in { "close_pool", "done", "failed" } /\ pc # "idle") => conn = "released"

\* migrate committed its first migration and failed at a statement of the
\* second, and the connection went back to the pool
C15_Witness ==
    /\ operation = "migrate"
    /\ op_pc = "failed"
    /\ op_out.tag = "ExecuteError"
    /\ op_out.event.kind = "statement"
    /\ migration_i = 2
    /\ table # NameSet(applied_migrations)
    /\ conn = "released"

\* C27: every pool db.connection creates is closed when the scope is left,
\* after its connection has been released, when the body returned and when
\* it failed: once the operation is over, its body having run, the pool is
\* closed, and a pool is never closed while its connection is held.
C27_PoolClosedOnEveryPath ==
    /\ (op_pc \in { "done", "failed" } /\ conn = "released") => pool = "closed"
    /\ pool = "closed" => conn = "released"

(***************************************************************************)
(* A property of two interleaved Up runs, checked under SpecRace.          *)
(***************************************************************************)
\* every known migration runs its Up statements in a transaction
AllTransactional ==
    \A i \in 1..Len(known_migrations) : TransactionsEnabled(known_migrations[i], "UP")

\* the migrations call r has committed
CommittedBy(r) == { runs[r].committed[i] : i \in 1..Len(runs[r].committed) }

\* no element occurs twice in the sequence
NoRepeats(s) == \A i, j \in 1..Len(s) : s[i] = s[j] => i = j

\* the Up statements of the known migrations called by one of the names
UpStatementsOf(names) ==
    UNION { { known_migrations[i].up_statements[k] :
                k \in 1..Len(known_migrations[i].up_statements) } :
            i \in { i \in 1..Len(known_migrations) : known_migrations[i].name \in names } }

\* the call is over
RunOver(r) == runs[r].pc \in { "returned", "raised" }

\* C28: when every known migration has transactions enabled, then in every
\* interleaving of two Up runs on one database no migration is committed
\* twice, by one run or by both: the committed statement effects are those of
\* the committed migrations, each once, and an open transaction never holds a
\* row that is committed.  A run returns only when it has committed every
\* migration of its plan itself; a run whose plan holds a migration the other
\* run committed ends, if it ends, with the failure of a statement or of a
\* bookkeeping write, its transaction rolled back.
C28_RacingRunsCommitOnce ==
    AllTransactional =>
        /\ \A r \in Runs :
              /\ NoRepeats(runs[r].committed)
              /\ CommittedBy(r) \cap CommittedBy(OtherRun(r)) = {}
              /\ CommittedBy(r) \subseteq table
              /\ runs[r].tx_open => runs[r].tx_rows \cap table = {}
              /\ runs[r].pc = "returned" => CommittedBy(r) = NameSet(runs[r].to_apply)
              /\ (RunOver(r) /\ NameSet(runs[r].to_apply) \cap CommittedBy(OtherRun(r)) # {}) =>
                    /\ runs[r].pc = "raised"
                    /\ runs[r].outcome.tag = "ExecuteError"
                    /\ ~runs[r].tx_open
        /\ NoRepeats(db_log)
        /\ { db_log[i] : i \in 1..Len(db_log) } =
               UpStatementsOf(CommittedBy(1) \cup CommittedBy(2))

\* both runs planned the same two migrations; the first run committed both
\* and returned, the second reached the bookkeeping write of the first
\* migration, which the primary key refused
C28_Witness ==
    /\ AllTransactional
    /\ runs[1].pc = "returned"
    /\ Len(runs[1].committed) = 2
    /\ runs[2].to_apply = runs[1].to_apply
    /\ runs[2].pc = "raised"
    /\ runs[2].outcome.tag = "ExecuteError"
    /\ runs[2].outcome.event.kind = "insert"
    /\ runs[2].outcome.event.name \in CommittedBy(1)
    /\ runs[2].committed = << >>
    /\ Len(db_log) = 2 * MaxStmts

(***************************************************************************)
(* A property of the parser on whole files, checked under SpecParse.       *)
(***************************************************************************)
\* a comment line: it begins with "-- " and not with "-- +"
IsCommentLine(line) ==
    /\ Len(line) >= 3
    /\ SubSeq(line, 1, 3) = << "-", "-", " " >>
    /\ ~(Len(line) >= 4 /\ line[4] = "+")

\* the lines read while `direction` was active, its directives aside
SectionLines(lines, direction) ==
    { i \in 1..Len(lines) :
        DirectionAt(lines, i) = direction /\ ~IsDirectionLine(lines[i]) }

\* the file has a section for the direction, with comment lines and nothing else
OnlyComments(lines, direction) ==
    /\ SectionLines(lines, direction) # {}
    /\ \A i \in SectionLines(lines, direction) : IsCommentLine(lines[i])

\* the file without the comment lines of the sections of the direction
RECURSIVE WithoutCommentsOf(_, _, _)
WithoutCommentsOf(lines, direction, i) ==
    IF i > Len(lines) THEN << >>
    ELSE (IF IsCommentLine(lines[i]) /\ DirectionAt(lines, i) = direction
          THEN << >> ELSE << lines[i] >>)
         \o WithoutCommentsOf(lines, direction, i + 1)

\* the file '-- +migrate Up' / 'CREATE TABLE t(x int);' / '-- +migrate Down' /
\* '-- nothing to downgrade!'
NothingToDowngradeFile == << LineUp, LineCreate, LineDown, LineComment >>

\* the input is exhausted and the final checks are made
InputEndsNow ==
    /\ parse_pc = "reading"
    /\ parse_pc' # "reading"
    /\ content_read' = content_read

\* C26: a comment line changes nothing in the parser, whatever the state it
\* is read in.  At the end of a file in which a direction has a section and
\* its sections hold comment lines only, the outcome is the one of the same
\* file without these comment lines, so the parse succeeds unless something
\* else in the file is wrong, and then the statements of that direction are
\* empty and those of the other direction are what its own sections give.
\* The file Up / CREATE TABLE t(x int); / Down / -- nothing to downgrade!
\* parses to one up statement and no down statement.
C26_CommentOnlySectionTolerated ==
    [][ /\ ( /\ parse_pc = "reading"
             /\ Len(content_read') = Len(content_read) + 1
             /\ IsCommentLine(content_read'[Len(content_read')]) ) =>
              /\ parse_state' = parse_state
              /\ parse_pc' = "reading"
              /\ parse_out' = parse_out
        /\ InputEndsNow =>
              \A direction \in Direction :
                  OnlyComments(content_read, direction) =>
                      /\ parse_out' = parse_migration(MigrationFileName,
                                           WithoutCommentsOf(content_read, direction, 1))
                      /\ parse_pc' = "returned" =>
                            /\ StatementsOf(parse_state, direction) = << >>
                            /\ parse_out'.ret = parse_state.parsed_migration
                      /\ parse_pc' = "raised" =>
                            \/ parse_state.ignore_semicolons
                            \/ /\ HoldsContent(parse_state.buf)
                               /\ parse_state.current_direction = OtherDirection(direction)
        /\ (InputEndsNow /\ content_read = NothingToDowngradeFile) =>
              /\ parse_pc' = "returned"
              /\ parse_out'.ret.up_statements = << LineCreate \o << "\n" >> >>
              /\ parse_out'.ret.down_statements = << >>
      ]_vars

\* the file with nothing to downgrade has been parsed
C26_Witness ==
    /\ content_read = NothingToDowngradeFile
    /\ parse_pc = "returned"
    /\ parse_out.ret.up_statements = << LineCreate \o << "\n" >> >>
    /\ parse_out.ret.down_statements = << >>

=============================================================================
